---- MODULE Spec2Model ----
(***************************************************************************)
(* video-transcriber-mcp: the transcription pipeline of src/transcriber.ts *)
(* (transcribeVideo, execWithRetry, execPromise), its pure helpers         *)
(* (isUrl, sanitizeFilename, validateLocalFile), checkDependencies and the *)
(* tool-call handler of src/index.ts that answers a request.               *)
(*                                                                         *)
(* Strings are sequences.  Command lines, error messages and references    *)
(* are sequences of word tokens: String.prototype.includes(w) is "some     *)
(* token is w", toLowerCase works token by token.  Titles handed to        *)
(* sanitizeFilename are sequences of single characters.                    *)
(***************************************************************************)
EXTENDS Integers, Sequences, FiniteSets, TLC

VARIABLES
    \* ---- one transcribeVideo call --------------------------------------
    pc,         \* position of the call (or the harness of a helper)
    url,        \* options.url, a token sequence
    tempDir,    \* "none" (never created) | "exists" | "removed"
    dest,       \* outputDir: the set of files [path, content] in it
    engine,     \* what whisper left in tempDir: [txt, json], each a content or NoFile
    progress,   \* messages handed to onProgress, in order
    outcome,    \* "pending" | "returned" | "thrown"
    result,     \* the TranscriptionResult of a returned call, else NoResult
    errMsg,     \* message of the thrown Error
    faults,     \* the failures the environment injected into this call
    meta,       \* the resolved metadata (videoId, title, ...), else NoMeta
    events,     \* what the call did, in order: <<kind, what>> pairs
    captured,   \* stderr of the latest tool execution that failed
    cause,      \* message of the error that ended the call, before wrapping
    srcExists,  \* existsSync of the resolved local path
    missing,    \* the external tools that are not installed
    req,        \* name of the tool call being served
    response,   \* what the tool-call handler returned, else NoResponse
    optModel,   \* options.model as passed, or Undefined
    optLanguage,\* options.language as passed, or Undefined
    engineCmd,  \* the whisper command line that was executed
    probed,     \* stdout of the ffprobe execution that succeeded
    \* ---- several transcribeVideo calls in flight -------------------------
    calls,      \* request id -> [pc, source, tempDir, wrote]
    disk,       \* [tmp: the temp directories and their files, out: outputDir]
    \* ---- the execWithRetry call in progress ----------------------------
    rState,     \* "idle" | "run" | "wait" | "ok" | "err"
    rCmd,       \* command
    rMax,       \* maxRetries
    attempt,    \* loop variable
    rLog,       \* one entry per execution of the command: what exec reported
    delays,     \* the backoff delays waited, in order
    rOut,       \* stdout of the resolved call
    rErr,       \* message of the Error the call rejected with
    \* ---- pure helpers under test ---------------------------------------
    fin,        \* input
    fout,       \* output of one application
    fout2       \* output of the application to fout

envvars == <<srcExists, missing, req, optModel, optLanguage>>
concvars == <<calls, disk>>
\* the call's variables other than pc, progress and events
quiet == <<url, tempDir, dest, engine, outcome, result, errMsg, faults, meta,
           cause, response, envvars, engineCmd, probed, concvars>>
callvars == <<quiet, events, captured>>
\* everything but the variables of the concurrent calls
solo == <<pc, progress, url, tempDir, dest, engine, outcome, result, errMsg, faults, meta,
            cause, response, envvars, engineCmd, probed, events, captured>>
pvars == <<pc, progress, callvars>>
rvars == <<rState, rCmd, rMax, attempt, rLog, delays, rOut, rErr>>
fvars == <<fin, fout, fout2>>
vars == <<pvars, rvars, fvars>>

\* ------------------------------------------------------------------ bounds

\* Largest maxRetries a caller of execWithRetry passes in the retry harness.
MaxAttempts == 6
\* Longest free suffix of a title handed to sanitizeFilename.
MaxTail == 3

\* ------------------------------------------------------------- constants

DefaultMaxRetries == 3
BaseDelayMs == 1000
MaxDelayMs == 10000
MaxNameLen == 150

\* ---------------------------------------------------------------- strings

Min(a, b) == IF a < b THEN a ELSE b

RECURSIVE Pow2(_)
Pow2(n) == IF n = 0 THEN 1 ELSE 2 * Pow2(n - 1)

\* String.prototype.toLowerCase, token by token.
LowerTok(t) ==
    CASE t = "TIMEOUT" -> "timeout"
      [] t = "Network" -> "network"
      [] t = "Connection" -> "connection"
      [] t = "HTTP" -> "http"
      [] t = "HTTPS" -> "https"
      [] t = ".MP4" -> ".mp4"
      [] t = ".Mkv" -> ".mkv"
      [] t = ".OGV" -> ".ogv"
      [] t = ".WebM" -> ".webm"
      [] t = "YouTube.com" -> "youtube.com"
      [] t = "Vimeo" -> "vimeo"
      [] t = "Generic" -> "generic"
      [] OTHER -> t

ToLowerCase(s) == [i \in DOMAIN s |-> LowerTok(s[i])]

\* String.prototype.includes for a one-token needle.
Includes(s, w) == \E i \in DOMAIN s : s[i] = w

\* String.prototype.substring(0, n)
Substring0(s, n) == SubSeq(s, 1, Min(n, Len(s)))

Repeat(c, n) == [i \in 1..n |-> c]

\* All sequences over S of length at most n.
SeqUpTo(S, n) == UNION {[1..k -> S] : k \in 0..n}

NoFile == <<"<absent>">>
NoResult == [success |-> FALSE]
NoMeta == [videoId |-> <<>>, title |-> <<>>, channel |-> <<>>, duration |-> 0,
           uploadDate |-> <<>>, platform |-> <<>>, url |-> <<>>]
NoResponse == [isError |-> FALSE, text |-> <<>>]
NoDisk == [tmp |-> {}, out |-> {}]
\* An option the caller left out.
Undefined == <<"<undefined>">>
NoEngine == [txt |-> NoFile, json |-> NoFile]

\* ------------------------------------------------------------------ isUrl

\* WHATWG URL parsing of new URL(input) with no base, on tokens.  Leading and
\* trailing C0-control-or-space is stripped; a scheme token followed by ":" is
\* required (no base URL, so anything else is a failure); the scheme is
\* lower-cased; a special scheme skips any slashes and then needs a host.
SpaceToks == {" ", "\t"}
SchemeToks == {"http", "https", "HTTP", "HTTPS", "ftp", "c"}
SpecialSchemes == {"http", "https", "ftp"}
SlashToks == {"/", "//", "\\"}

\* s without its longest prefix (suffix) of elements of drop.
TrimLeft(s, drop) ==
    LET keep == {i \in DOMAIN s : s[i] \notin drop} IN
    IF keep = {} THEN <<>>
    ELSE SubSeq(s, CHOOSE i \in keep : \A j \in keep : i <= j, Len(s))

TrimRight(s, drop) ==
    LET keep == {i \in DOMAIN s : s[i] \notin drop} IN
    IF keep = {} THEN <<>>
    ELSE SubSeq(s, 1, CHOOSE i \in keep : \A j \in keep : j <= i)

ParseFail == [ok |-> FALSE, protocol |-> ""]

ParseURL(input) ==
    LET t == TrimRight(TrimLeft(input, SpaceToks), SpaceToks) IN
    IF Len(t) < 2 \/ t[1] \notin SchemeToks \/ t[2] # ":" THEN ParseFail
    ELSE LET scheme == LowerTok(t[1])
             rest == TrimLeft(SubSeq(t, 3, Len(t)), SlashToks)
         IN IF scheme \in SpecialSchemes /\ (rest = <<>> \/ Head(rest) \in SpaceToks)
            THEN ParseFail
            ELSE [ok |-> TRUE, protocol |-> scheme]

\* Variant: a test of the leading scheme word instead of a parse.
isUrl_SchemePrefix(input) ==
    input # <<>> /\ LowerTok(Head(input)) \in {"http", "https"}

isUrl(input) ==
    LET u == ParseURL(input) IN
    IF ~u.ok THEN FALSE ELSE u.protocol = "http" \/ u.protocol = "https"

\* ------------------------------------------------------------ execPromise

\* What child_process.exec hands its callback: a zero exit with stdout, or a
\* non-zero exit with stderr.
ExecOk(out) == [ok |-> TRUE, stdout |-> out, stderr |-> <<>>]
ExecFail(err) == [ok |-> FALSE, stdout |-> <<>>, stderr |-> err]

\* error.message of a failed exec is Node's "Command failed: <cmd>\n<stderr>".
NodeExecMessage(command, stderr) ==
    <<"Command failed: ">> \o command \o <<"\n">> \o stderr

\* Variant: a rejection that reports the command and not what it printed.
execPromise_CommandOnly(command, ex) ==
    IF ex.ok THEN [ok |-> TRUE, stdout |-> ex.stdout, message |-> <<>>]
    ELSE [ok |-> FALSE, stdout |-> <<>>,
          message |-> <<"Command failed: ">> \o command]

\* The settled promise: resolved with stdout, or rejected with
\* Error(`Command failed: ${error.message}\n${stderr}`).
execPromise(command, ex) ==
    IF ex.ok THEN [ok |-> TRUE, stdout |-> ex.stdout, message |-> <<>>]
    ELSE [ok |-> FALSE, stdout |-> <<>>,
          message |-> <<"Command failed: ">> \o NodeExecMessage(command, ex.stderr)
                      \o <<"\n">> \o ex.stderr]

\* ---------------------------------------------------------- execWithRetry

Indicators == {"network", "connection", "timeout", "unreachable", "temporary failure"}

isNetworkError(message) ==
    LET errorMsg == ToLowerCase(message) IN
    \E w \in Indicators : Includes(errorMsg, w)

\* Variant: the exponential delay without the 10 s cap.
Delay_NoCap(a) == BaseDelayMs * Pow2(a - 1)

\* Math.min(1000 * Math.pow(2, attempt - 1), 10000)
Delay(a) == Min(BaseDelayMs * Pow2(a - 1), MaxDelayMs)

\* Variant: the note counts the attempt that is about to start.
RetryNote_NextAttempt(delay, a, max) ==
    <<"Network error, retrying in ", ToString(delay \div 1000), "s (attempt ",
      ToString(a + 1), "/", ToString(max), ")...">>

RetryNote(delay, a, max) ==
    <<"Network error, retrying in ", ToString(delay \div 1000), "s (attempt ",
      ToString(a), "/", ToString(max), ")...">>

\* stderr texts a failing tool prints.
Stderrs ==
    { <<"ERROR: ", "timeout">>,
      <<"ERROR: ", "Connection", " reset">>,
      <<"ERROR: ", "permission denied">>,
      <<"ERROR: ", "Unsupported URL">> }

\* What the shell prints for a binary that is not installed (exit 127).
NotFound(tool) == <<"/bin/sh: 1: ", tool, ": not found">>

\* The ways one execution of a command of `tool` can end: a zero exit with
\* one of the stdouts in outs, or a non-zero exit with a stderr text.  A tool
\* that is not installed can only fail, with the shell's message.
ExecOutcomes(tool, outs) ==
    IF tool \in missing THEN {ExecFail(NotFound(tool))}
    ELSE {ExecOk(o) : o \in outs} \cup {ExecFail(e) : e \in Stderrs}

\* Variant: every failure is retried while attempts remain.
ThrowsNow_AlwaysRetry(message, a, max) == a = max

\* if (!isNetworkError || attempt === maxRetries) throw lastError;
ThrowsNow(message, a, max) == ~isNetworkError(message) \/ a = max

\* Variant: lastError keeps the error of the first failed attempt.
RetryExec_FirstError(outcomes) ==
    /\ rState = "run"
    /\ \E ex \in outcomes :
         LET p == execPromise(rCmd, ex) IN
         /\ rLog' = Append(rLog, ex)
         /\ IF p.ok
            THEN /\ rState' = "ok"
                 /\ rOut' = p.stdout
                 /\ UNCHANGED <<rErr, delays, progress>>
            ELSE /\ rErr' = IF attempt = 1 THEN p.message ELSE rErr
                 /\ rOut' = rOut
                 /\ IF ThrowsNow(p.message, attempt, rMax)
                    THEN /\ rState' = "err"
                         /\ UNCHANGED <<delays, progress>>
                    ELSE /\ rState' = "wait"
                         /\ delays' = Append(delays, Delay(attempt))
                         /\ progress' = Append(progress,
                                RetryNote(Delay(attempt), attempt, rMax))
    /\ UNCHANGED <<rCmd, rMax, attempt>>

\* One pass of the loop body: the command runs and reports one of outcomes.
RetryExec(outcomes) ==
    /\ rState = "run"
    /\ \E ex \in outcomes :
         LET p == execPromise(rCmd, ex) IN
         /\ rLog' = Append(rLog, ex)
         /\ IF p.ok
            THEN /\ rState' = "ok"
                 /\ rOut' = p.stdout
                 /\ UNCHANGED <<rErr, delays, progress>>
            ELSE /\ rErr' = p.message
                 /\ rOut' = rOut
                 /\ IF ThrowsNow(p.message, attempt, rMax)
                    THEN /\ rState' = "err"
                         /\ UNCHANGED <<delays, progress>>
                    ELSE /\ rState' = "wait"
                         /\ delays' = Append(delays, Delay(attempt))
                         /\ progress' = Append(progress,
                                RetryNote(Delay(attempt), attempt, rMax))
    /\ UNCHANGED <<rCmd, rMax, attempt>>

\* The backoff timer fires: attempt++ and the loop goes round, or is left
\* with `throw lastError` when attempt has passed maxRetries.
RetryWait ==
    /\ rState = "wait"
    /\ attempt' = attempt + 1
    /\ rState' = IF attempt + 1 <= rMax THEN "run" ELSE "err"
    /\ UNCHANGED <<rCmd, rMax, rLog, delays, rOut, rErr, progress>>

RetryIdle ==
    /\ rState = "idle" /\ rCmd = <<>> /\ rMax = 0 /\ attempt = 0
    /\ rLog = <<>> /\ delays = <<>> /\ rOut = <<>> /\ rErr = <<>>

SingleIdle ==
    /\ url = <<>> /\ tempDir = "none" /\ dest = {} /\ engine = NoEngine
    /\ progress = <<>> /\ outcome = "pending" /\ result = NoResult
    /\ errMsg = <<>> /\ faults = {} /\ meta = NoMeta
    /\ events = <<>> /\ cause = <<>> /\ response = NoResponse
    /\ captured = <<>>
    /\ srcExists = FALSE /\ missing = {} /\ req = "none"
    /\ optModel = Undefined /\ optLanguage = Undefined
    /\ engineCmd = <<>> /\ probed = <<>>

PipelineIdle == SingleIdle /\ calls = <<>> /\ disk = NoDisk

HelperIdle == fin = <<>> /\ fout = <<>> /\ fout2 = <<>>

\* ------------------------------------- execWithRetry called on its own

\* Command lines: the tool and the words of its arguments.  A word of the
\* video URL may itself be an indicator word.
RetryCmds ==
    { <<"yt-dlp --dump-json ", "https://example.com/", "talk">>,
      <<"yt-dlp --dump-json ", "https://example.com/", "Network", "-outage-report">> }

InitRetry ==
    /\ pc = "retry"
    /\ PipelineIdle /\ HelperIdle
    /\ rState = "run"
    /\ rCmd \in RetryCmds
    /\ rMax \in 1..MaxAttempts
    /\ attempt = 1
    /\ rLog = <<>> /\ delays = <<>> /\ rOut = <<>> /\ rErr = <<>>

RetryHarnessExec ==
    /\ pc = "retry"
    /\ RetryExec(ExecOutcomes("yt-dlp", {<<"out">>}))
    /\ UNCHANGED <<pc, callvars>>
    /\ UNCHANGED fvars

RetryHarnessWait ==
    /\ pc = "retry"
    /\ RetryWait
    /\ UNCHANGED <<pc, callvars>>
    /\ UNCHANGED fvars

NextRetry == RetryHarnessExec \/ RetryHarnessWait

SpecRetry == InitRetry /\ [][NextRetry]_vars

\* ------------------------------------------------------- sanitizeFilename

\* [<>:"/\\|?*\x00-\x1F]: the characters the first replace removes.  "\t",
\* "\n", "\r" and "NUL" stand for the range \x00-\x1F.
C0Controls == {"NUL", "\t", "\n", "\r"}
InvalidChars == {"<", ">", ":", "\"", "/", "\\", "|", "?", "*"} \cup C0Controls
\* What \s matches in a JavaScript regular expression.
WhitespaceChars == {" ", "\t", "\n", "\r", "NBSP"}
\* Control characters outside \x00-\x1F: DEL (\x7F) and the C1 range.
OtherControls == {"DEL"}

RemoveChars(s, class) == SelectSeq(s, LAMBDA c : c \notin class)

\* replace(/[class]+/g, "-"): every maximal run of class characters becomes
\* one hyphen.
ReplaceRuns(s, class) ==
    LET starts == SelectSeq([i \in DOMAIN s |-> i],
                            LAMBDA i : s[i] \notin class \/ i = 1 \/ s[i - 1] \notin class)
    IN [k \in DOMAIN starts |-> IF s[starts[k]] \in class THEN "-" ELSE s[starts[k]]]

TrimHyphens(s) == TrimRight(TrimLeft(s, {"-"}), {"-"})

\* Variant: no truncation at MaxNameLen.
sanitizeFilename_NoTruncate(str) ==
    TrimHyphens(ReplaceRuns(ReplaceRuns(RemoveChars(str, InvalidChars),
                                        WhitespaceChars), {"-"}))

sanitizeFilename(str) ==
    LET removed == RemoveChars(str, InvalidChars)         \* invalid characters
        spaced == ReplaceRuns(removed, WhitespaceChars)   \* /\s+/g  -> "-"
        single == ReplaceRuns(spaced, {"-"})              \* /--+/g  -> "-"
        trimmed == TrimHyphens(single)                    \* /^-+|-+$/g -> ""
    IN Substring0(trimmed, MaxNameLen)

\* ------------------------------------ sanitizeFilename called on its own

TitleChars == {"a", "-", " ", "/", "\t", "DEL"}

\* Titles: a run of letters (none, or long enough that the truncation at
\* MaxNameLen falls inside the free suffix), then any short suffix.
PadLens == {0, MaxNameLen - 2, MaxNameLen - 1}
Titles == {Repeat("a", n) \o t : n \in PadLens, t \in SeqUpTo(TitleChars, MaxTail)}

InitSanitize ==
    /\ pc = "sanitize"
    /\ PipelineIdle /\ RetryIdle
    /\ fin \in Titles
    /\ fout = <<>> /\ fout2 = <<>>

SanitizeOnce ==
    /\ pc = "sanitize"
    /\ fout' = sanitizeFilename(fin)
    /\ pc' = "sanitized"
    /\ UNCHANGED <<fin, fout2>>
    /\ UNCHANGED <<progress, callvars>>
    /\ UNCHANGED rvars

SanitizeAgain ==
    /\ pc = "sanitized"
    /\ fout2' = sanitizeFilename(fout)
    /\ pc' = "resanitized"
    /\ UNCHANGED <<fin, fout>>
    /\ UNCHANGED <<progress, callvars>>
    /\ UNCHANGED rvars

NextSanitize == SanitizeOnce \/ SanitizeAgain

SpecSanitize == InitSanitize /\ [][NextSanitize]_vars

\* ------------------------------------------------- isUrl called on its own

\* References: optional surrounding blanks, an optional scheme word, an
\* optional ":", and a rest of slashes and words.
RefRests ==
    { <<>>, <<"//">>, <<"//", "youtube.com", "/watch", "?v=", "abc123">>,
      <<"youtube.com">>, <<"/", "videos", "/", "talk", ".mp4">>,
      <<"\\", "videos", "\\", "talk", ".MP4">>, <<"//", " ">> }
RefHeads ==
    { <<>>, <<":">>, <<"videos">> }
      \cup {<<s>> : s \in SchemeToks} \cup {<<s, ":">> : s \in SchemeToks}
RefPads == {<<>>, <<" ">>}
References == {a \o h \o r \o b : a \in RefPads, h \in RefHeads, r \in RefRests, b \in RefPads}

InitClassify ==
    /\ pc = "classify"
    /\ PipelineIdle /\ RetryIdle
    /\ fin \in References
    /\ fout = <<>> /\ fout2 = <<>>

Classify ==
    /\ pc = "classify"
    /\ fout' = <<IF isUrl(fin) THEN "REMOTE" ELSE "LOCAL">>
    /\ pc' = "classified"
    /\ UNCHANGED <<fin, fout2>>
    /\ UNCHANGED <<progress, callvars>>
    /\ UNCHANGED rvars

NextClassify == Classify

SpecClassify == InitClassify /\ [][NextClassify]_vars

\* --------------------------------------------------- metadata and naming

Chars_DemoTalk == <<"D", "e", "m", "o", " ", "T", "a", "l", "k">>
Chars_Slashed == <<"a", "/", "b", " ", " ", "-", "c">>
Chars_Date == <<"2", "0", "2", "3", "0", "6", "0", "1">>

\* JSON.parse of the text yt-dlp --dump-json prints: the object the text
\* denotes.  Absent fields read as the empty string (falsy), duration as 0.
MetaObjects(key) ==
    CASE key = "demo" ->
           [id |-> <<"xyz">>, title |-> Chars_DemoTalk, channel |-> <<"Acme">>,
            duration |-> 125, upload_date |-> Chars_Date, extractor |-> <<"youtube">>]
      [] key = "slashed" ->
           [id |-> <<"q1">>, title |-> Chars_Slashed, channel |-> <<>>,
            duration |-> 3725, upload_date |-> <<"2", "0", "2", "4">>,
            extractor |-> <<"Generic">>]
      [] OTHER ->
           [id |-> <<>>, title |-> <<>>, channel |-> <<>>,
            duration |-> 0, upload_date |-> <<>>, extractor |-> <<>>]

JsonText(key) == <<"{json}", key>>
IsJson(text) == Len(text) = 2 /\ text[1] = "{json}"
JsonParse(text) == MetaObjects(text[2])

\* a || b on strings
OrElse(a, b) == IF a = <<>> THEN b ELSE a

\* Buffer.from(url): the UTF-8 bytes of the words a locator begins with.
TokBytes(t) ==
    CASE t = "https" -> <<104, 116, 116, 112, 115>>
      [] t = "http" -> <<104, 116, 116, 112>>
      [] t = ":" -> <<58>>
      [] t = "//" -> <<47, 47>>
      [] t = "youtube.com" -> <<121, 111, 117, 116, 117, 98, 101, 46, 99, 111, 109>>
      [] t = "example.com" -> <<101, 120, 97, 109, 112, 108, 101, 46, 99, 111, 109>>
      [] t = "other.org" -> <<111, 116, 104, 101, 114, 46, 111, 114, 103>>
      [] t = "vimeo.com" -> <<118, 105, 109, 101, 111, 46, 99, 111, 109>>
      [] t = "youtu.be/" -> <<121, 111, 117, 116, 117, 46, 98, 101, 47>>
      [] t = "127.0.0.1" -> <<49, 50, 55, 46, 48, 46, 48, 46, 49>>
      [] t = "/" -> <<47>>
      [] t = "/a" -> <<47, 97>>
      [] t = "/b" -> <<47, 98>>
      [] t = "<U+65E5><U+672C>.jp" -> <<230, 151, 165, 230, 156, 172, 46, 106, 112>>

\* The first n bytes of a locator.
RECURSIVE FirstBytes(_, _)
FirstBytes(u, n) ==
    IF n = 0 \/ u = <<>> THEN <<>>
    ELSE LET b == TokBytes(Head(u))
             k == Min(n, Len(b))
         IN SubSeq(b, 1, k) \o FirstBytes(Tail(u), n - k)

Base64Alphabet ==
    <<"A", "B", "C", "D", "E", "F", "G", "H", "I", "J", "K", "L", "M", "N", "O", "P",
      "Q", "R", "S", "T", "U", "V", "W", "X", "Y", "Z", "a", "b", "c", "d", "e", "f",
      "g", "h", "i", "j", "k", "l", "m", "n", "o", "p", "q", "r", "s", "t", "u", "v",
      "w", "x", "y", "z", "0", "1", "2", "3", "4", "5", "6", "7", "8", "9", "+", "/">>

HashLen == 11

\* toString('base64').substring(0, 11): 11 characters are 66 bits, the first
\* eight bytes and the two high bits of the ninth (zero bits past the end).
Base64Prefix(u) ==
    LET bytes == FirstBytes(u, 9)
        b(i) == IF i <= Len(bytes) THEN bytes[i] ELSE 0
        g(j) == b(3 * j - 2) * 65536 + b(3 * j - 1) * 256 + b(3 * j)
        sextet(k) == LET n == g(((k - 1) \div 4) + 1)
                         r == (k - 1) % 4
                     IN IF r = 0 THEN n \div 262144
                        ELSE IF r = 1 THEN (n \div 4096) % 64
                        ELSE IF r = 2 THEN (n \div 64) % 64
                        ELSE n % 64
    IN [k \in 1..HashLen |-> Base64Alphabet[sextet(k) + 1]]

\* .replace(/\+/g, '-').replace(/\//g, '_')
Base64Id(u) ==
    LET h == Base64Prefix(u)
    IN [k \in DOMAIN h |-> IF h[k] = "+" THEN "-" ELSE IF h[k] = "/" THEN "_" ELSE h[k]]

\* Words that begin with '&', with '?'; no other word holds either character.
AmpToks == {"&", "&v=", "&t=", "&list="}
QToks == {"?", "?v=", "?t="}

\* The words of u from position from up to the first word of stops.
Run(u, from, stops) ==
    LET ends == {j \in from..Len(u) : u[j] \in stops}
        last == IF ends = {} THEN Len(u) ELSE (CHOOSE j \in ends : \A k \in ends : j <= k) - 1
    IN SubSeq(u, from, last)

\* /[?&]v=([^&]+)/, then /youtu\.be\/([^?]+)/, then metadata.id, then the hash.
extractVideoId(u, metadata) ==
    LET vs == {i \in 1..(Len(u) - 1) : u[i] \in {"?v=", "&v="} /\ u[i + 1] \notin AmpToks}
        ys == {i \in 1..(Len(u) - 1) : u[i] = "youtu.be/" /\ u[i + 1] \notin QToks}
    IN IF vs # {} THEN Run(u, (CHOOSE i \in vs : \A j \in vs : i <= j) + 1, AmpToks)
       ELSE IF ys # {} THEN Run(u, (CHOOSE i \in ys : \A j \in ys : i <= j) + 1, QToks)
       ELSE IF metadata.id # <<>> THEN metadata.id
       ELSE Base64Id(u)

\* Variant: the extractor name consulted before the URL.
detectPlatform_ExtractorFirst(u, metadata) ==
    LET urlLower == ToLowerCase(u)
        has(w) == Includes(urlLower, w)
        extractor == ToLowerCase(metadata.extractor)
    IN IF metadata.extractor # <<>>
       THEN IF Includes(extractor, "youtube") THEN <<"YouTube">>
            ELSE IF Includes(extractor, "vimeo") THEN <<"Vimeo">>
            ELSE IF Includes(extractor, "tiktok") THEN <<"TikTok">>
            ELSE IF Includes(extractor, "twitter") THEN <<"Twitter/X">>
            ELSE metadata.extractor
       ELSE IF has("youtube.com") \/ has("youtu.be/") THEN <<"YouTube">>
       ELSE IF has("vimeo.com") THEN <<"Vimeo">>
       ELSE IF has("tiktok.com") THEN <<"TikTok">>
       ELSE IF has("twitter.com") \/ has("x.com") THEN <<"Twitter/X">>
       ELSE IF has("facebook.com") \/ has("fb.watch") THEN <<"Facebook">>
       ELSE IF has("instagram.com") THEN <<"Instagram">>
       ELSE IF has("twitch.tv") THEN <<"Twitch">>
       ELSE IF has("dailymotion.com") THEN <<"Dailymotion">>
       ELSE <<"Unknown">>

detectPlatform(u, metadata) ==
    LET urlLower == ToLowerCase(u)
        has(w) == Includes(urlLower, w)
        extractor == ToLowerCase(metadata.extractor)
    IN IF has("youtube.com") \/ has("youtu.be/") THEN <<"YouTube">>
       ELSE IF has("vimeo.com") THEN <<"Vimeo">>
       ELSE IF has("tiktok.com") THEN <<"TikTok">>
       ELSE IF has("twitter.com") \/ has("x.com") THEN <<"Twitter/X">>
       ELSE IF has("facebook.com") \/ has("fb.watch") THEN <<"Facebook">>
       ELSE IF has("instagram.com") THEN <<"Instagram">>
       ELSE IF has("twitch.tv") THEN <<"Twitch">>
       ELSE IF has("dailymotion.com") THEN <<"Dailymotion">>
       ELSE IF metadata.extractor # <<>>
            THEN IF Includes(extractor, "youtube") THEN <<"YouTube">>
                 ELSE IF Includes(extractor, "vimeo") THEN <<"Vimeo">>
                 ELSE IF Includes(extractor, "tiktok") THEN <<"TikTok">>
                 ELSE IF Includes(extractor, "twitter") THEN <<"Twitter/X">>
                 ELSE metadata.extractor
            ELSE <<"Unknown">>

\* String(n).padStart(2, "0")
Pad2(n) == IF n < 10 THEN <<"0" , ToString(n)>> ELSE <<ToString(n)>>

\* Variant: the minutes not reduced modulo the hour.
formatDuration_TotalMinutes(seconds) ==
    Pad2(seconds \div 3600) \o <<":">> \o Pad2(seconds \div 60) \o <<":">> \o Pad2(seconds % 60)

formatDuration(seconds) ==
    LET hours == seconds \div 3600
        minutes == (seconds % 3600) \div 60
        secs == seconds % 60
    IN Pad2(hours) \o <<":">> \o Pad2(minutes) \o <<":">> \o Pad2(secs)

\* Variant: every input of eight or more characters is hyphenated.
formatDate_AtLeast8(dateStr) ==
    IF Len(dateStr) < 8 THEN dateStr
    ELSE SubSeq(dateStr, 1, 4) \o <<"-">> \o SubSeq(dateStr, 5, 6) \o <<"-">>
         \o SubSeq(dateStr, 7, 8)

formatDate(dateStr) ==
    IF dateStr = <<>> \/ Len(dateStr) # 8 THEN dateStr
    ELSE SubSeq(dateStr, 1, 4) \o <<"-">> \o SubSeq(dateStr, 5, 6) \o <<"-">>
         \o SubSeq(dateStr, 7, 8)

\* Variant: the probed duration rounded to the nearest second.
ProbeDuration_Rounded(stdout) ==
    IF stdout = <<"12.7">> THEN 13 ELSE 0

\* parseFloat(stdout.trim()) || 0, then Math.floor
ProbeDuration(stdout) ==
    IF stdout = <<"12.7">> THEN 12 ELSE 0

\* ---------------------------------------------------------- the file system

OutputDir == <<"out/">>
WriteFile(fs, path, content) ==
    {f \in fs : f.path # path} \cup {[path |-> path, content |-> content]}
FileExists(fs, path) == \E f \in fs : f.path = path
FileContent(fs, path) == (CHOOSE f \in fs : f.path = path).content

\* What the engine writes as video.txt and video.json.
PreviewLen == 500

\* A transcript one character longer than the preview.
LongText == Repeat("w", PreviewLen + 1)

Texts == { <<"hello world">>, <<>>, <<"so", "---", "then">>, LongText }
Jsons == { <<"{\"text\":\"hello world\"}">>, <<"{truncated">> }

DefaultModel == <<"base">>
DefaultLanguage == <<"auto">>

\* A destructuring default: `model = "base"` applies to undefined only.
Defaulted(opt, d) == IF opt = Undefined THEN d ELSE opt
\* The handler's `model || "base"`: the default for every falsy value.
HandlerOption(opt, d) == IF opt = Undefined \/ opt = <<>> THEN d ELSE opt

\* model and language as transcribeVideo sees them: a transcribe_video tool
\* call passes them through the handler, a direct call does not.
Model ==
    Defaulted(IF req = "transcribe_video" THEN HandlerOption(optModel, DefaultModel)
              ELSE optModel, DefaultModel)
Language ==
    Defaulted(IF req = "transcribe_video" THEN HandlerOption(optLanguage, DefaultLanguage)
              ELSE optLanguage, DefaultLanguage)

Trailer(model, language) ==
    <<"*Transcribed using OpenAI Whisper (model: ">> \o model
      \o (IF language # <<"auto">> THEN <<", language: ">> \o language ELSE <<>>)
      \o <<")*", "\n">>

TranscriptHeading == <<"\n", "---", "\n\n", "## Transcript", "\n\n">>
TranscriptClose == <<"\n\n", "---", "\n\n">>

MdHeader(m) ==
    <<"# ">> \o m.title \o <<"\n\n", "**Video:** ">> \o m.url
      \o <<"\n", "**Platform:** ">> \o m.platform
      \o <<"\n", "**Channel:** ">> \o m.channel
      \o <<"\n", "**Video ID:** ">> \o m.videoId
      \o <<"\n", "**Duration:** ">> \o formatDuration(m.duration)
      \o <<"\n", "**Published:** ">> \o formatDate(m.uploadDate)
      \o <<"\n">>

mdContent(m, txtContent, model, language) ==
    MdHeader(m) \o TranscriptHeading \o txtContent \o TranscriptClose
      \o Trailer(model, language)

\* Variant: the title used as it is.
safeFilename_RawTitle(m) == m.videoId \o <<"-">> \o m.title

safeFilename(m) == m.videoId \o <<"-">> \o sanitizeFilename(m.title)

OutputPath(m, ext) == OutputDir \o safeFilename(m) \o <<ext>>

\* -------------------------------------------------------- transcribeVideo

\* References of the pipeline runs: remote ones (the second has an indicator
\* word in its path), a locator with a scheme and no host, and local paths
\* <<directory, base name, extension>>, one of them under a directory named
\* after a video site.
PipelineRefs ==
    { <<"https", ":", "//", "youtube.com", "/watch", "?v=", "xyz">>,
      <<"https", ":", "//", "example.com", "/", "Network", "-outage-report">>,
      <<"https", ":", "//">>,
      <<"/videos/", "talk", ".MP4">>,
      <<"/videos/", "notes", ".txt">>,
      <<"/videos/youtube.com/", "clip", ".mp4">> }

VideoExtensions ==
    {".mp4", ".avi", ".mov", ".mkv", ".flv", ".wmv", ".webm", ".m4v", ".mpg",
     ".mpeg", ".3gp", ".ogv"}

\* The tokens that are a dot and an extension.
DotTokens ==
    VideoExtensions \cup {".MP4", ".Mkv", ".OGV", ".WebM", ".txt", ".mp3", ".mp4a", ".mp"}

\* Directory tokens that start at the root.
AbsoluteRoots == {"/videos/", "/videos/youtube.com/", "/srv/media/"}

\* path.resolve: a relative path is appended to the working directory, and
\* trailing separators are dropped.
resolve(path) ==
    LET t == TrimRight(path, SlashToks) IN
    IF t # <<>> /\ Head(t) \in AbsoluteRoots THEN t ELSE <<"/cwd/">> \o t

\* path.extname and path.basename(p, ext) of <<directory, base name, extension>>
extname(path) ==
    IF Len(path) >= 1 /\ path[Len(path)] \in DotTokens THEN path[Len(path)] ELSE ""
basename(path) ==
    IF extname(path) # ""
    THEN (IF Len(path) >= 2 THEN <<path[Len(path) - 1]>> ELSE <<>>)
    ELSE (IF Len(path) >= 1 THEN <<path[Len(path)]>> ELSE <<>>)

\* Variant: the extension compared as written.
validateLocalFile_CaseSensitive(filePath, exists) ==
    LET absolutePath == resolve(filePath) IN
    IF ~exists THEN <<"File not found: ">> \o absolutePath
    ELSE IF extname(absolutePath) \notin VideoExtensions
         THEN <<"Unsupported file format: ", extname(absolutePath), ". Expected video file.">>
         ELSE <<>>

\* The error validateLocalFile throws, or <<>>.
validateLocalFile(filePath, exists) ==
    LET absolutePath == resolve(filePath)
        ext == LowerTok(extname(absolutePath))
    IN IF ~exists THEN <<"File not found: ">> \o absolutePath
       ELSE IF ext \notin VideoExtensions
            THEN <<"Unsupported file format: ", ext, ". Expected video file.">>
            ELSE <<>>

\* The error validateUrl throws, or <<>>.
validateUrl(u) ==
    IF ~ParseURL(u).ok THEN <<"Invalid URL format: ">> \o u ELSE <<>>

MetaCmd(u) == <<"yt-dlp --dump-json ">> \o u
DownloadCmd(u) == <<"yt-dlp -x --audio-format mp3 -o video.%(ext)s ">> \o u
ProbeCmd(path) == <<"ffprobe -v error -show_entries format=duration ">> \o path
ExtractCmd(path) == <<"ffmpeg -i ">> \o path \o <<" -vn -acodec libmp3lame -q:a 2 video.mp3 -y">>
WhisperCmd(model, language) ==
    <<"whisper video.mp3 --model ">> \o model \o <<" --output_format all">>
      \o (IF language # <<>> /\ language # <<"auto">>
          THEN <<" --language ">> \o language ELSE <<>>)

TranscribingNote(model, language) ==
    <<"Transcribing audio with Whisper (model: ">> \o model
      \o (IF language # <<"auto">> THEN <<", language: ">> \o language ELSE <<>>)
      \o <<")...">>

\* ---- the record of what a call did

\* One execution of a command of `tool`, and how it ended.
ExecEvents(tool, ok) == << <<"exec", tool>>, <<IF ok THEN "ok" ELSE "fail", tool>> >>

\* Variant: the command run through execWithRetry, a failure with an
\* indicator word in its message executed three times.
Runs_Retried(tool, p) ==
    IF ~p.ok /\ isNetworkError(p.message)
    THEN ExecEvents(tool, FALSE) \o ExecEvents(tool, FALSE) \o ExecEvents(tool, FALSE)
    ELSE ExecEvents(tool, p.ok)

\* The executions `await execPromise(command)` makes of the tool: one.
Runs(tool, p) == ExecEvents(tool, p.ok)

\* Variant: the local branch taken for remote references and the other way
\* round.
Route_Swapped(isLocalFile) == IF isLocalFile THEN "meta" ELSE "probe"

\* if (isLocalFile) { ffprobe, ffmpeg } else { yt-dlp, yt-dlp }
Route(isLocalFile) == IF isLocalFile THEN "probe" ELSE "meta"

\* Variant: the text artifact written as soon as video.txt is read.
ComposeEvents_WriteEarly(t, j, failed) ==
    IF t = NoFile THEN << <<"fail", "read">> >>
    ELSE IF j = NoFile THEN << <<"read", ".txt">>, <<"write", ".txt">>, <<"fail", "read">> >>
    ELSE << <<"read", ".txt">>, <<"write", ".txt">>, <<"read", ".json">>,
            <<"write", ".json">>, <<"write", ".md">> >>

\* The reads of whisper's two files and the writes of the three artifacts,
\* in program order, up to the first that throws.
ComposeEvents(t, j, failed) ==
    IF t = NoFile THEN << <<"fail", "read">> >>
    ELSE IF j = NoFile THEN << <<"read", ".txt">>, <<"fail", "read">> >>
    ELSE << <<"read", ".txt">>, <<"read", ".json">> >> \o
         (CASE failed = "txt" -> << <<"fail", "write">> >>
            [] failed = "json" -> << <<"write", ".txt">>, <<"fail", "write">> >>
            [] failed = "md" -> << <<"write", ".txt">>, <<"write", ".json">>,
                                   <<"fail", "write">> >>
            [] OTHER -> << <<"write", ".txt">>, <<"write", ".json">>,
                           <<"write", ".md">> >>)

\* The variables no step of transcribeVideo changes.
fixed == <<url, response, envvars, concvars>>

\* Variant: a catch block that rethrows without removing tempDir.
Catch_NoCleanup(message, files, notes, injected, log) ==
    /\ tempDir' = tempDir
    /\ faults' = injected
    /\ outcome' = "thrown"
    /\ errMsg' = <<"Transcription failed: ">> \o message
    /\ cause' = message
    /\ result' = NoResult
    /\ dest' = files
    /\ progress' = notes
    /\ events' = log
    /\ pc' = "done"

\* Variant: a catch block that rethrows a fixed message.
Catch_FixedMessage(message, files, notes, injected, log) ==
    \E rmOk \in BOOLEAN :
        /\ tempDir' = IF rmOk THEN "removed" ELSE "exists"
        /\ faults' = injected \cup (IF rmOk THEN {} ELSE {"rmCatch"})
        /\ outcome' = "thrown"
        /\ errMsg' = <<"Transcription failed">>
        /\ cause' = message
        /\ result' = NoResult
        /\ dest' = files
        /\ progress' = notes
        /\ events' = Append(log, <<"rm", "tempDir">>)
        /\ pc' = "done"

\* Variant: a catch block that swallows the error.
Catch_NoRethrow(message, files, notes, injected, log) ==
    \E rmOk \in BOOLEAN :
        /\ tempDir' = IF rmOk THEN "removed" ELSE "exists"
        /\ faults' = injected \cup (IF rmOk THEN {} ELSE {"rmCatch"})
        /\ outcome' = "returned"
        /\ errMsg' = <<>>
        /\ cause' = message
        /\ result' = NoResult
        /\ dest' = files
        /\ progress' = notes
        /\ events' = Append(log, <<"rm", "tempDir">>)
        /\ pc' = "done"

\* The catch block: rmSync(tempDir) with its own failure swallowed, then
\* throw new Error(`Transcription failed: ${errorMessage}`).
\* Variant: a catch block that also empties the destination directory.
Catch_ClearsOutput(message, files, notes, injected, log) ==
    \E rmOk \in BOOLEAN :
        /\ tempDir' = IF rmOk THEN "removed" ELSE "exists"
        /\ faults' = injected \cup (IF rmOk THEN {} ELSE {"rmCatch"})
        /\ outcome' = "thrown"
        /\ errMsg' = <<"Transcription failed: ">> \o message
        /\ cause' = message
        /\ result' = NoResult
        /\ dest' = {}
        /\ progress' = notes
        /\ events' = Append(log, <<"rm", "tempDir">>)
        /\ pc' = "done"

Catch(message, files, notes, injected, log) ==
    \E rmOk \in BOOLEAN :
        /\ tempDir' = IF rmOk THEN "removed" ELSE "exists"
        /\ faults' = injected \cup (IF rmOk THEN {} ELSE {"rmCatch"})
        /\ outcome' = "thrown"
        /\ errMsg' = <<"Transcription failed: ">> \o message
        /\ cause' = message
        /\ result' = NoResult
        /\ dest' = files
        /\ progress' = notes
        /\ events' = Append(log, <<"rm", "tempDir">>)
        /\ pc' = "done"

\* An error thrown before the try block: no cleanup, no wrapping.
ThrowRaw(message, injected, notes, log) ==
    /\ outcome' = "thrown"
    /\ errMsg' = message
    /\ cause' = message
    /\ faults' = injected
    /\ progress' = notes
    /\ events' = log
    /\ pc' = "done"
    /\ UNCHANGED <<tempDir, dest, result>>

\* ---- checkDependencies

Dependencies == <<"yt-dlp", "whisper", "ffmpeg">>

\* The sets of tools a run finds missing.
MissingSets == {{}, {"yt-dlp"}, {"whisper"}, {"ffmpeg"}, {"yt-dlp", "whisper", "ffmpeg"}}

InstallLine(dep) ==
    IF dep = "yt-dlp" \/ dep = "whisper"
    THEN <<"  ", dep, ": pip install ", IF dep = "whisper" THEN "openai-whisper" ELSE dep>>
    ELSE <<"  ", dep, ": Install from package manager or https://ffmpeg.org">>

\* Array.prototype.join of token sequences.
RECURSIVE Join(_, _)
Join(parts, sep) ==
    IF parts = <<>> THEN <<>>
    ELSE IF Len(parts) = 1 THEN parts[1]
    ELSE parts[1] \o <<sep>> \o Join(Tail(parts), sep)

\* Variant: the probing stops at the first tool that fails.
checkDependencies_StopAtFirst(notInstalled) ==
    LET all == SelectSeq(Dependencies, LAMBDA d : d \in notInstalled)
        miss == IF all = <<>> THEN <<>> ELSE <<Head(all)>>
    IN
    IF miss = <<>> THEN [ok |-> TRUE, message |-> <<>>]
    ELSE [ok |-> FALSE,
          message |-> <<"Missing dependencies: ">>
                      \o Join([i \in DOMAIN miss |-> <<miss[i]>>], ", ")
                      \o <<"\n\nPlease install:\n">>
                      \o Join([i \in DOMAIN miss |-> InstallLine(miss[i])], "\n")
                      \o <<"\n\nSee README for platform-specific installation instructions.">>]

\* The three probes in order, each tool that fails to run collected; the
\* Error thrown when any is missing.
checkDependencies(notInstalled) ==
    LET miss == SelectSeq(Dependencies, LAMBDA d : d \in notInstalled) IN
    IF miss = <<>> THEN [ok |-> TRUE, message |-> <<>>]
    ELSE [ok |-> FALSE,
          message |-> <<"Missing dependencies: ">>
                      \o Join([i \in DOMAIN miss |-> <<miss[i]>>], ", ")
                      \o <<"\n\nPlease install:\n">>
                      \o Join([i \in DOMAIN miss |-> InstallLine(miss[i])], "\n")
                      \o <<"\n\nSee README for platform-specific installation instructions.">>]

\* ---- the call

Init ==
    /\ pc = "start"
    /\ req \in {"transcribe_video", "check_dependencies"}
    /\ missing \in MissingSets
    /\ IF req = "transcribe_video"
       THEN /\ url \in PipelineRefs
            /\ srcExists \in (IF isUrl(url) THEN {FALSE} ELSE BOOLEAN)
       ELSE url = <<>> /\ srcExists = FALSE
    /\ tempDir = "none" /\ dest = {} /\ engine = NoEngine
    /\ progress = <<>> /\ outcome = "pending" /\ result = NoResult
    /\ errMsg = <<>> /\ faults = {} /\ meta = NoMeta
    /\ events = <<>> /\ cause = <<>> /\ response = NoResponse
    /\ captured = <<>>
    /\ optModel = Undefined /\ optLanguage = Undefined
    /\ engineCmd = <<>> /\ probed = <<>>
    /\ calls = <<>> /\ disk = NoDisk
    /\ RetryIdle /\ HelperIdle

\* The call up to its first await: classification, validation, mkdtempSync
\* and the start of the metadata step.
Start ==
    /\ pc = "start"
    /\ req \in {"transcribe_video", "direct"}
    /\ \E mkOk \in BOOLEAN :
         LET isLocalFile == ~isUrl(url)
             invalid == IF isLocalFile THEN validateLocalFile(url, srcExists)
                        ELSE validateUrl(url)
             note == IF isLocalFile THEN <<"Processing local video file: ">> \o url
                     ELSE <<"Processing video URL: ">> \o url
         IN IF invalid # <<>>
            THEN /\ ThrowRaw(invalid, {"validate"}, progress, << <<"fail", "validate">> >>)
                 /\ UNCHANGED rvars
            ELSE IF ~mkOk
            THEN /\ ThrowRaw(<<"ENOSPC: no space left on device, mkdtemp">>, {"mkdtemp"},
                             <<note>>, << <<"ok", "validate">>, <<"fail", "mkdtemp">> >>)
                 /\ UNCHANGED rvars
            ELSE /\ tempDir' = "exists"
                 /\ events' = << <<"ok", "validate">>, <<"ok", "mkdtemp">> >>
                 /\ UNCHANGED <<dest, result, outcome, errMsg, faults, cause>>
                 /\ pc' = Route(isLocalFile)
                 /\ IF Route(isLocalFile) = "probe"
                    THEN /\ progress' = <<note, <<"Extracting metadata from local file...">>>>
                         /\ UNCHANGED rvars
                    ELSE /\ progress' = <<note, <<"Fetching video metadata from ">> \o url
                                                   \o <<"...">>>>
                         /\ rState' = "run" /\ rCmd' = MetaCmd(url)
                         /\ rMax' = DefaultMaxRetries /\ attempt' = 1
                         /\ rLog' = <<>> /\ delays' = <<>>
                         /\ UNCHANGED <<rOut, rErr>>
    /\ UNCHANGED <<fixed, engine, meta, captured, engineCmd, probed>>
    /\ UNCHANGED fvars

\* ffprobe has reported: getLocalVideoMetadata never throws; then
\* extractAudioFromLocal starts ffmpeg.
ProbeDone ==
    /\ pc = "probe"
    /\ \E ex \in ExecOutcomes("ffprobe", {<<"12.7">>, <<"N/A">>}) :
         LET p == execPromise(ProbeCmd(resolve(url)), ex)
             fileName == basename(resolve(url))
         IN /\ meta' = [videoId |-> fileName, title |-> fileName,
                        channel |-> <<"Local File">>,
                        duration |-> IF p.ok THEN ProbeDuration(p.stdout) ELSE 0,
                        uploadDate |-> <<>>, platform |-> <<"Local File">>, url |-> url]
            /\ faults' = faults \cup (IF p.ok THEN {} ELSE {"probe"})
            /\ events' = events \o ExecEvents("ffprobe", p.ok) \o << <<"ok", "metadata">> >>
            /\ captured' = IF p.ok THEN captured ELSE ex.stderr
            /\ probed' = IF p.ok THEN p.stdout ELSE probed
    /\ progress' = Append(progress, <<"Extracting audio from local video file...">>)
    /\ pc' = "extract"
    /\ UNCHANGED <<fixed, tempDir, dest, engine, outcome, result, errMsg, cause, engineCmd>>
    /\ UNCHANGED <<rvars, fvars>>

\* ffmpeg has reported.
ExtractDone ==
    /\ pc = "extract"
    /\ \E ex \in ExecOutcomes("ffmpeg", {<<>>}) :
         LET p == execPromise(ExtractCmd(resolve(url)), ex) IN
         /\ captured' = IF p.ok THEN captured ELSE ex.stderr
         /\ IF p.ok
            THEN /\ progress' = progress \o << <<"Audio extracted successfully">>,
                                   TranscribingNote(Model, Language) >>
                 /\ events' = events \o Runs("ffmpeg", p) \o << <<"ok", "audio">> >>
                 /\ pc' = "whisper"
                 /\ UNCHANGED <<tempDir, dest, outcome, result, errMsg, faults, cause>>
            ELSE Catch(<<"Failed to extract audio: ">> \o p.message, dest, progress,
                       faults \cup {"extract"}, events \o Runs("ffmpeg", p))
    /\ UNCHANGED <<fixed, engine, meta, engineCmd, probed>>
    /\ UNCHANGED <<rvars, fvars>>

\* execWithRetry of the metadata dump, one execution or one backoff wait.
MetaExec ==
    /\ pc = "meta"
    /\ RetryExec(ExecOutcomes("yt-dlp", {JsonText("demo"), JsonText("slashed"),
                                         JsonText("bare"), <<"WARNING: no json">>}))
    /\ events' = events \o ExecEvents("yt-dlp --dump-json", rLog'[Len(rLog')].ok)
    /\ captured' = IF rLog'[Len(rLog')].ok THEN captured ELSE rLog'[Len(rLog')].stderr
    /\ UNCHANGED <<pc, quiet, fvars>>

MetaWait ==
    /\ pc = "meta"
    /\ RetryWait
    /\ UNCHANGED <<pc, callvars, fvars>>

\* execWithRetry of the metadata dump has settled.
MetaDone ==
    /\ pc = "meta"
    /\ rState \in {"ok", "err"}
    /\ IF rState = "err"
       THEN /\ Catch(rErr, dest, progress, faults \cup {"meta"}, events)
            /\ UNCHANGED meta
            /\ rState' = "idle"
            /\ UNCHANGED <<rCmd, rMax, attempt, rLog, delays, rOut, rErr>>
       ELSE IF ~IsJson(rOut)
       THEN /\ Catch(<<"Unexpected token in JSON at position 0">>, dest, progress,
                     faults \cup {"parse"}, Append(events, <<"fail", "JSON.parse">>))
            /\ UNCHANGED meta
            /\ rState' = "idle"
            /\ UNCHANGED <<rCmd, rMax, attempt, rLog, delays, rOut, rErr>>
       ELSE LET metadata == JsonParse(rOut)
                platform == detectPlatform(url, metadata)
            IN /\ meta' = [videoId |-> extractVideoId(url, metadata),
                           title |-> OrElse(metadata.title, <<"U", "n", "k", "n", "o", "w", "n">>),
                           channel |-> OrElse(metadata.channel, <<"Unknown">>),
                           duration |-> metadata.duration,
                           uploadDate |-> metadata.upload_date,
                           platform |-> platform, url |-> url]
               /\ progress' = progress \o << <<"Detected platform: ">> \o platform,
                                  <<"Downloading audio from ">> \o platform \o <<"...">> >>
               /\ events' = Append(events, <<"ok", "metadata">>)
               /\ pc' = "download"
               /\ rState' = "run" /\ rCmd' = DownloadCmd(url)
               /\ rMax' = DefaultMaxRetries /\ attempt' = 1
               /\ rLog' = <<>> /\ delays' = <<>>
               /\ UNCHANGED <<rOut, rErr>>
               /\ UNCHANGED <<tempDir, dest, outcome, result, errMsg, faults, cause>>
    /\ UNCHANGED <<fixed, engine, captured, engineCmd, probed>>
    /\ UNCHANGED fvars

DownloadExec ==
    /\ pc = "download"
    /\ RetryExec(ExecOutcomes("yt-dlp", {<<>>}))
    /\ events' = events \o ExecEvents("yt-dlp -x", rLog'[Len(rLog')].ok)
    /\ captured' = IF rLog'[Len(rLog')].ok THEN captured ELSE rLog'[Len(rLog')].stderr
    /\ UNCHANGED <<pc, quiet, fvars>>

DownloadWait ==
    /\ pc = "download"
    /\ RetryWait
    /\ UNCHANGED <<pc, callvars, fvars>>

\* execWithRetry of the audio download has settled.
DownloadDone ==
    /\ pc = "download"
    /\ rState \in {"ok", "err"}
    /\ IF rState = "err"
       THEN Catch(rErr, dest, progress, faults \cup {"download"}, events)
       ELSE /\ progress' = Append(progress, TranscribingNote(Model, Language))
            /\ events' = Append(events, <<"ok", "audio">>)
            /\ pc' = "whisper"
            /\ UNCHANGED <<tempDir, dest, outcome, result, errMsg, faults, cause>>
    /\ rState' = "idle"
    /\ UNCHANGED <<rCmd, rMax, attempt, rLog, delays, rOut, rErr>>
    /\ UNCHANGED <<fixed, engine, meta, captured, engineCmd, probed>>
    /\ UNCHANGED fvars

ENOENT(name) == <<"ENOENT: no such file or directory, open ", name>>
ENOSPC(name) == <<"ENOSPC: no space left on device, write ", name>>
EBUSY == <<"EBUSY: resource busy or locked, rmdir">>

\* Variant: the preview is the whole transcript.
TheResult_PreviewWhole(files, m, txtContent) ==
    [success |-> TRUE,
     files |-> [txt |-> OutputPath(m, ".txt"), json |-> OutputPath(m, ".json"),
                md |-> OutputPath(m, ".md")],
     metadata |-> m,
     transcript |-> txtContent,
     transcriptPreview |-> txtContent]

TheResult(files, m, txtContent) ==
    [success |-> TRUE,
     files |-> [txt |-> OutputPath(m, ".txt"), json |-> OutputPath(m, ".json"),
                md |-> OutputPath(m, ".md")],
     metadata |-> m,
     transcript |-> txtContent,
     transcriptPreview |-> Substring0(txtContent, PreviewLen)]

\* Variant: the completion note sent before rmSync(tempDir).
Finish_NoteEarly(files, txtContent, rmOk, log) ==
    IF rmOk
    THEN /\ tempDir' = "removed"
         /\ progress' = progress \o << <<"Cleaning up temporary files...">>,
                                       <<"Transcription complete!">> >>
         /\ outcome' = "returned"
         /\ result' = TheResult(files, meta, txtContent)
         /\ dest' = files
         /\ events' = Append(log, <<"rm", "tempDir">>)
         /\ pc' = "done"
         /\ UNCHANGED <<errMsg, faults, cause>>
    ELSE Catch(EBUSY, files, progress \o << <<"Cleaning up temporary files...">>,
                                            <<"Transcription complete!">> >>,
               faults \cup {"rm"}, log \o << <<"rm", "tempDir">>, <<"fail", "rm">> >>)

\* The rest of the try block once the three files are written: the progress
\* note, rmSync(tempDir), the completion note and the return.  rmSync is not
\* guarded there: when it throws, the catch block runs.
Finish(files, txtContent, rmOk, log) ==
    IF rmOk
    THEN /\ tempDir' = "removed"
         /\ progress' = progress \o << <<"Cleaning up temporary files...">>,
                                       <<"Transcription complete!">> >>
         /\ outcome' = "returned"
         /\ result' = TheResult(files, meta, txtContent)
         /\ dest' = files
         /\ events' = Append(log, <<"rm", "tempDir">>)
         /\ pc' = "done"
         /\ UNCHANGED <<errMsg, faults, cause>>
    ELSE Catch(EBUSY, files, Append(progress, <<"Cleaning up temporary files...">>),
               faults \cup {"rm"}, log \o << <<"rm", "tempDir">>, <<"fail", "rm">> >>)

\* Variant: the .json artifact written from txtContent.
WriteArtifacts_TextTwice(m, txtContent, jsonContent, failed) ==
    LET f1 == WriteFile(dest, OutputPath(m, ".txt"), txtContent)
        f2 == WriteFile(f1, OutputPath(m, ".json"), txtContent)
        f3 == WriteFile(f2, OutputPath(m, ".md"),
                        mdContent(m, txtContent, Model, Language))
    IN CASE failed = "txt" -> dest
         [] failed = "json" -> f1
         [] failed = "md" -> f2
         [] OTHER -> f3

\* The three writeFileSync calls in order; failed names the one that throws.
\* A write that throws is taken to leave no file behind.
WriteArtifacts(m, txtContent, jsonContent, failed) ==
    LET f1 == WriteFile(dest, OutputPath(m, ".txt"), txtContent)
        f2 == WriteFile(f1, OutputPath(m, ".json"), jsonContent)
        f3 == WriteFile(f2, OutputPath(m, ".md"),
                        mdContent(m, txtContent, Model, Language))
    IN CASE failed = "txt" -> dest
         [] failed = "json" -> f1
         [] failed = "md" -> f2
         [] OTHER -> f3

\* whisper has reported: the engine's two files are read, the three artifacts
\* written, the temp directory removed, the result returned.
WhisperDone ==
    /\ pc = "whisper"
    /\ \E ex \in ExecOutcomes("whisper", {<<>>}),
          t \in Texts \cup {NoFile}, j \in Jsons \cup {NoFile},
          failed \in {"none", "txt", "json", "md"}, rmOk \in BOOLEAN :
         LET p == execPromise(WhisperCmd(Model, Language), ex)
             ran == events \o Runs("whisper", p)
             log == ran \o ComposeEvents(t, j, failed)
         IN
         /\ captured' = IF p.ok THEN captured ELSE ex.stderr
         /\ engineCmd' = WhisperCmd(Model, Language)
         /\ IF ~p.ok
            THEN /\ engine' = NoEngine
                 /\ Catch(p.message, dest, progress, faults \cup {"whisper"}, ran)
            ELSE /\ engine' = [txt |-> t, json |-> j]
                 /\ IF t = NoFile
                    THEN Catch(ENOENT("video.txt"), dest, progress, faults \cup {"readTxt"}, log)
                    ELSE IF j = NoFile
                    THEN Catch(ENOENT("video.json"), dest, progress, faults \cup {"readJson"},
                               log)
                    ELSE IF failed # "none"
                    THEN Catch(ENOSPC(failed), WriteArtifacts(meta, t, j, failed), progress,
                               faults \cup {"write"}, log)
                    ELSE Finish(WriteArtifacts(meta, t, j, "none"), t, rmOk, log)
    /\ UNCHANGED <<fixed, meta, probed>>
    /\ UNCHANGED <<rvars, fvars>>

\* ---- the tool-call handler

\* The catch of the CallTool handler.
\* Variant: the message returned as an ordinary text.
ErrorResponse_Plain(message) == [isError |-> FALSE, text |-> message]

ErrorResponse(message) == [isError |-> TRUE, text |-> <<"Error: ">> \o message]

\* What handleTranscribeVideo returns for a result.
SuccessResponse(r) ==
    [isError |-> FALSE,
     text |-> <<"Video transcribed successfully!", "- Title: ">> \o r.metadata.title
              \o <<"- Platform: ">> \o r.metadata.platform
              \o <<"- Text: ">> \o r.files.txt
              \o <<"- JSON: ">> \o r.files.json
              \o <<"- Markdown: ">> \o r.files.md]

\* transcribe_video: transcribeVideo has settled; its result is formatted,
\* its error rethrown to the handler's catch.
Respond ==
    /\ pc = "done"
    /\ req = "transcribe_video"
    /\ response' = IF outcome = "thrown" THEN ErrorResponse(errMsg)
                   ELSE SuccessResponse(result)
    /\ pc' = "responded"
    /\ UNCHANGED <<url, tempDir, dest, engine, outcome, result, errMsg, faults, meta,
                   events, captured, cause, envvars, progress, engineCmd, probed,
                   concvars>>
    /\ UNCHANGED <<rvars, fvars>>

\* check_dependencies: the three probes run, and the handler reports.
HandleCheckDependencies ==
    /\ pc = "start"
    /\ req = "check_dependencies"
    /\ LET c == checkDependencies(missing) IN
       response' = IF c.ok
                   THEN [isError |-> FALSE,
                         text |-> <<"All dependencies are installed:", "\n  - yt-dlp",
                                    "\n  - whisper", "\n  - ffmpeg">>]
                   ELSE [isError |-> TRUE, text |-> <<"X ">> \o c.message]  \* "X " is the cross mark
    /\ events' = [i \in DOMAIN Dependencies |->
                    <<IF Dependencies[i] \in missing THEN "fail" ELSE "ok",
                      Dependencies[i]>>]
    /\ pc' = "responded"
    /\ UNCHANGED <<url, tempDir, dest, engine, outcome, result, errMsg, faults, meta,
                   captured, cause, envvars, progress, engineCmd, probed, concvars>>
    /\ UNCHANGED <<rvars, fvars>>

Next ==
    \/ Start
    \/ ProbeDone \/ ExtractDone
    \/ MetaExec \/ MetaWait \/ MetaDone
    \/ DownloadExec \/ DownloadWait \/ DownloadDone
    \/ WhisperDone
    \/ Respond
    \/ HandleCheckDependencies

Spec == Init /\ [][Next]_vars

\* Every step that is possible is eventually taken: each external tool and
\* each timer reports back.
SpecLive == Init /\ [][Next]_vars /\ WF_vars(Next)

\* ---- calls with the model and language options set

Models == {Undefined, <<"small">>}
Languages == {Undefined, <<"auto">>, <<"en">>, <<>>}
OptionRefs ==
    { <<"https", ":", "//", "youtube.com", "/watch", "?v=", "xyz">>,
      <<"/videos/", "talk", ".MP4">> }

\* A transcribe_video tool call or a direct call of transcribeVideo, every
\* tool installed, the local file in place.
InitOptions ==
    /\ pc = "start"
    /\ req \in {"transcribe_video", "direct"}
    /\ url \in OptionRefs
    /\ optModel \in Models /\ optLanguage \in Languages
    /\ missing = {} /\ srcExists = ~isUrl(url)
    /\ tempDir = "none" /\ dest = {} /\ engine = NoEngine
    /\ progress = <<>> /\ outcome = "pending" /\ result = NoResult
    /\ errMsg = <<>> /\ faults = {} /\ meta = NoMeta
    /\ events = <<>> /\ cause = <<>> /\ response = NoResponse
    /\ captured = <<>> /\ engineCmd = <<>> /\ probed = <<>>
    /\ calls = <<>> /\ disk = NoDisk
    /\ RetryIdle /\ HelperIdle

NextOptions ==
    \/ Start
    \/ ProbeDone \/ ExtractDone
    \/ MetaExec \/ MetaWait \/ MetaDone
    \/ DownloadExec \/ DownloadWait \/ DownloadDone
    \/ WhisperDone
    \/ Respond

SpecOptions == InitOptions /\ [][NextOptions]_vars

\* ================================================================ claims

Done == pc = "done"
RemovalFailed == faults \cap {"rm", "rmCatch"} # {}
Exts == {".txt", ".json", ".md"}
Written == {e \in Exts : FileExists(dest, OutputPath(meta, e))}

\* C1: after a call that has returned or thrown - the success path, or one
\* failure injected at validation, metadata acquisition, audio acquisition,
\* the engine or the artifact composition - the temporary directory created
\* for the call does not exist; a call that failed validation created none.
C1_TempDirGone ==
    (Done /\ ~RemovalFailed) =>
        /\ tempDir # "exists"
        /\ (tempDir = "none") = (faults \cap {"validate", "mkdtemp"} # {})
        /\ outcome \in {"returned", "thrown"}

C1_Witness ==
    /\ Done /\ outcome = "thrown" /\ faults = {"write"} /\ tempDir = "removed"

\* C2: a failure of the temp-directory removal never changes the outcome:
\* when the removal fails after the three artifacts were written the call
\* still returns the success result, and when it fails after a stage error
\* the call still throws that stage's error, not the cleanup error.
C2_CleanupFailureSwallowed ==
    Done =>
        /\ ("rm" \in faults => outcome = "returned" /\ result.success)
        /\ (("rmCatch" \in faults /\ "rm" \notin faults) =>
                outcome = "thrown" /\ ~Includes(errMsg, EBUSY[1]))

\* The tool's own error output of one execution names no indicator.
NonNetworkFailure(ex) == ~ex.ok /\ ~isNetworkError(ex.stderr)

\* C3: a failure whose stderr contains none of the indicators is never
\* retried: it is the last execution of the command, the call rejects and no
\* backoff wait follows it - whatever words the command line contains.
C3_NonNetworkNeverRetried ==
    \A i \in DOMAIN rLog :
        NonNetworkFailure(rLog[i]) =>
            /\ i = Len(rLog)
            /\ rState = "err"
            /\ Len(delays) = i - 1

MessageOf(i) == execPromise(rCmd, rLog[i]).message
Settled == rState \in {"ok", "err"}

\* C4: with maxRetries N >= 1, a command whose every execution fails with a
\* message containing an indicator runs exactly N times and then rejects with
\* the last error, with N - 1 waits; a first failure whose message contains
\* 'permission denied' and no indicator ends the call after one execution; a
\* call that resolves at attempt k <= N has run the command exactly k times
\* and returns that execution's output.
C4_RetryGating ==
    /\ ( /\ rState = "err"
         /\ \A i \in DOMAIN rLog : ~rLog[i].ok /\ isNetworkError(MessageOf(i)) )
       => /\ Len(rLog) = rMax
          /\ rErr = MessageOf(rMax)
          /\ Len(delays) = rMax - 1
    /\ ( /\ rLog # <<>>
         /\ ~rLog[1].ok
         /\ Includes(MessageOf(1), "permission denied")
         /\ ~isNetworkError(MessageOf(1)) )
       => /\ Len(rLog) = 1
          /\ rState = "err"
          /\ delays = <<>>
    /\ rState = "ok"
       => /\ Len(rLog) = attempt
          /\ attempt <= rMax
          /\ rLog[attempt].ok
          /\ \A i \in 1..(attempt - 1) : ~rLog[i].ok
          /\ rOut = rLog[attempt].stdout
          /\ Len(delays) = attempt - 1
    /\ ~Settled => Len(rLog) < rMax

C4_Witness ==
    /\ rState = "err" /\ rMax = DefaultMaxRetries /\ Len(rLog) = DefaultMaxRetries
    /\ ~isNetworkError(rCmd)
    /\ \A i \in DOMAIN rLog : Includes(rLog[i].stderr, "timeout")

BackoffTable == <<1000, 2000, 4000, 8000, 10000>>

\* C5: the delay waited after failed attempt a is min(1000 * 2^(a-1), 10000)
\* ms: 1000, 2000, 4000, 8000, 10000 for attempts 1..5, non-decreasing, never
\* above 10000; with the default of 3 attempts only 1000 then 2000 are waited.
C5_BackoffSchedule ==
    /\ \A a \in DOMAIN delays :
        /\ a <= Len(BackoffTable) => delays[a] = BackoffTable[a]
        /\ delays[a] <= 10000
        /\ a > 1 => delays[a - 1] <= delays[a]
    /\ Len(delays) <= rMax - 1
    /\ rMax = DefaultMaxRetries =>
         delays \in {<<>>, <<1000>>, <<1000, 2000>>}

C5_Witness == Len(delays) = 5 /\ delays[5] = 10000 /\ rState = "wait"

\* C6: once a call has ended, the destination directory holds none or all
\* three of the call's .txt/.json/.md files, also when one of the three
\* writes failed.
C6_NoPartialArtifacts ==
    Done => Written = {} \/ Written = Exts

FirstIndex(s, w) == CHOOSE i \in DOMAIN s : s[i] = w /\ \A j \in 1..(i - 1) : s[j] # w
LastIndex(s, w) == CHOOSE i \in DOMAIN s : s[i] = w /\ \A j \in (i + 1)..Len(s) : s[j] # w

\* The text between the line of the '## Transcript' heading and the line of
\* the closing '---' marker, without the blank line on either side.
BetweenMarkers(md) ==
    SubSeq(md, FirstIndex(md, "## Transcript") + 2, LastIndex(md, "---") - 2)

\* C7: on success the three files exist at the paths of result.files, the
\* .txt holds the engine's text, the .json the engine's structured output
\* unchanged, and the .txt content stands in the .md between the
\* '## Transcript' heading and the closing '---'.
C7_ArtifactsComplete ==
    outcome = "returned" =>
        /\ \A k \in {"txt", "json", "md"} : FileExists(dest, result.files[k])
        /\ Cardinality({result.files[k] : k \in {"txt", "json", "md"}}) = 3
        /\ FileContent(dest, result.files.txt) = engine.txt
        /\ FileContent(dest, result.files.json) = engine.json
        /\ LET md == FileContent(dest, result.files.md) IN
           /\ Includes(md, "## Transcript")
           /\ BetweenMarkers(md) = FileContent(dest, result.files.txt)

C7_Witness ==
    /\ outcome = "returned"
    /\ engine.txt = <<"so", "---", "then">>
    /\ FileContent(dest, result.files.txt) = engine.txt

\* C8: sanitizeFilename(sanitizeFilename(s)) = sanitizeFilename(s) for every
\* s, inputs longer than 150 characters included.
C8_Idempotent ==
    pc = "resanitized" => fout2 = fout

\* What the output of sanitizeFilename is free of, given the control
\* characters counted.
SanitizedUpTo(controls) ==
    pc \in {"sanitized", "resanitized"} =>
        /\ Len(fout) <= 150
        /\ \A i \in DOMAIN fout :
            /\ fout[i] \notin {"/", "\\"}
            /\ fout[i] \notin {"<", ">", ":", "\"", "|", "?", "*"}
            /\ fout[i] \notin controls
            /\ fout[i] \notin WhitespaceChars
        /\ fin = <<>> => fout = <<>>

\* C9 as stated: the output has at most 150 characters, no path separator,
\* no wildcard or quote character, no control character and no whitespace;
\* the empty string maps to the empty string.
C9_NoControlCharacters == SanitizedUpTo(C0Controls \cup OtherControls)

\* C9 as amended: the same, with the control characters those of
\* \x00-\x1F; DEL passes through.
C9_Sanitized ==
    /\ SanitizedUpTo(C0Controls)
    /\ pc \in {"sanitized", "resanitized"} =>
         (Includes(fin, "DEL") => Includes(fout, "DEL") \/ Len(fout) = MaxNameLen)

C9_Witness ==
    /\ pc = "sanitized" /\ Len(fin) > MaxNameLen /\ Len(fout) = MaxNameLen
    /\ Includes(fin, "/") /\ Includes(fin, "DEL") /\ Includes(fout, "DEL")

HttpSchemeToks == {"http", "https", "HTTP", "HTTPS"}

\* A reference that writes an absolute http(s) locator: blanks, the scheme,
\* ":", any slashes, a host, anything.
WritesHttpLocator(ref) ==
    \E a \in RefPads, sch \in HttpSchemeToks, r \in RefRests, b \in RefPads :
        /\ ref = a \o <<sch, ":">> \o r \o b
        /\ \E i \in DOMAIN r : r[i] \notin SlashToks \cup SpaceToks

YouTubeRef == <<"https", ":", "//", "youtube.com", "/watch", "?v=", "abc123">>

\* C10: for every reference isUrl answers exactly one of REMOTE and LOCAL;
\* REMOTE exactly when the reference parses as an absolute locator with
\* scheme http or https, LOCAL for every other string;
\* 'https://youtube.com/watch?v=abc123' is REMOTE.
C10_ClassificationTotal ==
    pc = "classified" =>
        /\ fout \in {<<"REMOTE">>, <<"LOCAL">>}
        /\ (fout = <<"REMOTE">>) = WritesHttpLocator(fin)
        /\ (fin = YouTubeRef => fout = <<"REMOTE">>)

C10_Witness ==
    pc = "classified" /\ fin = YouTubeRef /\ fout = <<"REMOTE">>

\* ---- C11

\* A reference written as an http(s) locator that new URL() rejects.
MalformedRemote(ref) ==
    ref # <<>> /\ LowerTok(Head(ref)) \in {"http", "https"} /\ ~ParseURL(ref).ok

\* C11: a reference written as a remote locator that fails locator parsing
\* makes transcribeVideo fail with 'Invalid URL format: ...', before the temp
\* directory is created and before any tool runs.
C11_InvalidReference ==
    (Done /\ MalformedRemote(url)) =>
        /\ outcome = "thrown"
        /\ errMsg # <<>> /\ Head(errMsg) = "Invalid URL format: "
        /\ tempDir = "none"
        /\ \A i \in DOMAIN events : events[i][1] # "exec"

\* ---- C12: validateLocalFile called on its own

\* Local paths: absolute and relative, with every extension token and with
\* none.
LocalDirs == {"/srv/media/", "videos/"}
LocalBases == {"talk", "archive.tar"}
LocalPaths ==
    {<<d, b>> : d \in LocalDirs, b \in LocalBases}
      \cup {<<d, b, e>> : d \in LocalDirs, b \in LocalBases, e \in DotTokens}

InitValidate ==
    /\ pc = "validate"
    /\ fin \in LocalPaths /\ fout = <<>> /\ fout2 = <<>>
    /\ srcExists \in BOOLEAN
    /\ url = <<>> /\ tempDir = "none" /\ dest = {} /\ engine = NoEngine
    /\ progress = <<>> /\ outcome = "pending" /\ result = NoResult
    /\ errMsg = <<>> /\ faults = {} /\ meta = NoMeta
    /\ events = <<>> /\ cause = <<>> /\ response = NoResponse
    /\ captured = <<>>
    /\ optModel = Undefined /\ optLanguage = Undefined
    /\ engineCmd = <<>> /\ probed = <<>>
    /\ calls = <<>> /\ disk = NoDisk
    /\ missing = {} /\ req = "none"
    /\ RetryIdle

ValidateOnce ==
    /\ pc = "validate"
    /\ fout' = validateLocalFile(fin, srcExists)
    /\ pc' = "validated"
    /\ UNCHANGED <<fin, fout2, progress, callvars, rvars>>

NextValidate == ValidateOnce

SpecValidate == InitValidate /\ [][NextValidate]_vars

\* The allowed extensions with the spellings that differ from them in case
\* only.
AllowedSpellings ==
    {".mp4", ".avi", ".mov", ".mkv", ".flv", ".wmv", ".webm", ".m4v", ".mpg",
     ".mpeg", ".3gp", ".ogv", ".MP4", ".Mkv", ".OGV", ".WebM"}

HasVideoExtension(path) == Len(path) = 3 /\ path[3] \in AllowedSpellings

\* C12: for a local path, validation fails with 'File not found' when the
\* path does not exist - whatever its extension -, with 'Unsupported file
\* format' when it exists and its extension is, case ignored, none of the 12
\* video extensions, and passes otherwise.
C12_LocalValidation ==
    /\ Cardinality(VideoExtensions) = 12
    /\ pc = "validated" =>
        /\ ~srcExists => (fout # <<>> /\ Head(fout) = "File not found: ")
        /\ (srcExists /\ ~HasVideoExtension(fin)) =>
              (fout # <<>> /\ Head(fout) = "Unsupported file format: ")
        /\ (srcExists /\ HasVideoExtension(fin)) => fout = <<>>

C12_Witness ==
    /\ pc = "validated" /\ srcExists
    /\ fin = <<"videos/", "talk", ".MP4">> /\ fout = <<>>

\* ---- C13

\* The commands executed so far, each named by its tool and mode.
Executed == {events[i][2] : i \in {k \in DOMAIN events : events[k][1] = "exec"}}
DownloadTool == {"yt-dlp --dump-json", "yt-dlp -x"}
LocalTools == {"ffprobe", "ffmpeg"}
SiteNamedPath == <<"/videos/youtube.com/", "clip", ".mp4">>

\* C13: a remote request executes the download tool and never ffprobe or
\* ffmpeg; a local request executes ffprobe and ffmpeg and never the download
\* tool; by the time the engine runs, both steps of the request's own branch
\* have run; a local request is labelled 'Local File' whatever its path is.
C13_Routing ==
    req = "transcribe_video" =>
        /\ isUrl(url) => Executed \subseteq DownloadTool \cup {"whisper"}
        /\ ~isUrl(url) =>
              /\ Executed \subseteq LocalTools \cup {"whisper"}
              /\ meta # NoMeta => meta.platform = <<"Local File">>
        /\ "whisper" \in Executed =>
              IF isUrl(url) THEN DownloadTool \subseteq Executed
              ELSE LocalTools \subseteq Executed

C13_Witness ==
    /\ Done /\ outcome = "returned" /\ url = SiteNamedPath
    /\ Executed = LocalTools \cup {"whisper"}
    /\ meta.platform = <<"Local File">>

\* ---- C14

\* Some event before the j-th is e.
Preceded(j, e) == \E i \in 1..(j - 1) : events[i] = e

StageOrder == <<"validate", "mkdtemp", "metadata", "audio", "whisper">>

\* The stages completed so far, in the order they completed.
Milestones ==
    LET done == SelectSeq(events, LAMBDA e : e[1] = "ok" /\ e[2] \in
                              {StageOrder[k] : k \in DOMAIN StageOrder})
    IN [i \in DOMAIN done |-> done[i][2]]

\* C14: stages complete in the fixed order validation, temp directory,
\* metadata, audio, engine; validation is over before the temp directory is
\* created or a tool runs; the audio step starts after the metadata step
\* finished; the engine runs after the audio step succeeded; a destination
\* file is written only after the engine succeeded and both its files were
\* read; on success the temp directory is removed after the three writes.
C14_StageOrder ==
    req = "transcribe_video" =>
        /\ Len(Milestones) <= Len(StageOrder)
        /\ Milestones = SubSeq(StageOrder, 1, Len(Milestones))
        /\ tempDir = "none" => Executed = {}
        /\ dest # {} => <<"ok", "whisper">> \in {events[i] : i \in DOMAIN events}
        /\ \A j \in DOMAIN events :
             LET e == events[j] IN
             /\ (e[1] = "exec" \/ e[2] = "mkdtemp") => Preceded(j, <<"ok", "validate">>)
             /\ e[1] = "exec" => Preceded(j, <<"ok", "mkdtemp">>)
             /\ e \in {<<"exec", "yt-dlp -x">>, <<"exec", "ffmpeg">>} =>
                   Preceded(j, <<"ok", "metadata">>)
             /\ e = <<"exec", "whisper">> => Preceded(j, <<"ok", "audio">>)
             /\ e[1] \in {"read", "write"} => Preceded(j, <<"ok", "whisper">>)
             /\ e[1] = "write" =>
                   Preceded(j, <<"read", ".txt">>) /\ Preceded(j, <<"read", ".json">>)
             /\ (e = <<"rm", "tempDir">> /\ outcome = "returned") =>
                   \A x \in Exts : Preceded(j, <<"write", x>>)
        /\ (Done /\ outcome = "returned") => (tempDir = "removed" /\ Written = Exts)

C14_Witness ==
    /\ Done /\ outcome = "returned" /\ isUrl(url)
    /\ Milestones = StageOrder
    /\ events[Len(events)] = <<"rm", "tempDir">>

\* ---- C15

\* How far along the pipeline a position is.
Rank(p) ==
    CASE p = "start" -> 0
      [] p \in {"meta", "probe"} -> 1
      [] p \in {"download", "extract"} -> 2
      [] p = "whisper" -> 3
      [] p = "done" -> 4
      [] OTHER -> 5

\* C15: with every tool invocation and timer reporting back, a transcribeVideo
\* call eventually settles; it settles once, either returning the success
\* result or throwing; no step goes back to an earlier stage, and the only
\* steps that stay in a stage are those of the retry loop of the metadata
\* fetch and of the audio download, which executes its command at most
\* maxRetries = 3 times.
C15_Terminates ==
    /\ (req = "transcribe_video") => <>Done
    /\ [][/\ Rank(pc') >= Rank(pc)
          /\ Rank(pc') = Rank(pc) => (pc' = pc /\ pc \in {"meta", "download"})]_vars
    /\ [][outcome # "pending" =>
             (outcome' = outcome /\ result' = result /\ errMsg' = errMsg)]_vars
    /\ [](/\ req = "transcribe_video" => (outcome = "pending") = (Rank(pc) < 4)
          /\ outcome = "returned" => (result # NoResult /\ result.success /\ errMsg = <<>>)
          /\ outcome = "thrown" => (result = NoResult /\ errMsg # <<>>)
          /\ Len(rLog) <= DefaultMaxRetries)

C15_Witness ==
    /\ Done /\ outcome = "thrown"
    /\ Len(rLog) = DefaultMaxRetries /\ Len(delays) = DefaultMaxRetries - 1

\* ---- C16

IsSuffix(s, t) == Len(s) <= Len(t) /\ SubSeq(t, Len(t) - Len(s) + 1, Len(t)) = s
Thrown == Done /\ outcome = "thrown"

\* What the thrown message has in front of the failure's own message.
Context == SubSeq(errMsg, 1, Len(errMsg) - Len(cause))

\* The failure that ended the call is the last thing the call did, but for
\* removals of the temp directory.
AbortedAtFailure ==
    \E k \in DOMAIN events :
        /\ events[k][1] = "fail"
        /\ \A j \in (k + 1)..Len(events) : events[j] = <<"rm", "tempDir">>

\* C16 as stated: the error of every stage failure reaches the caller
\* wrapped, behind a context that names the stage, and nothing runs after the
\* failure.
C16_WrappedWithStage ==
    Thrown =>
        /\ AbortedAtFailure
        /\ IsSuffix(cause, errMsg) /\ Context # <<>>

\* C16, amended: a stage failure aborts the pipeline - only the removal of
\* the temp directory follows it; a validation or mkdtemp failure is thrown as
\* it is, every later one behind the one wrapper 'Transcription failed: ',
\* whatever the stage.  The stage shows in the failure's own message: the
\* command line of a failed tool, 'Failed to extract audio: ' for ffmpeg.
C16_AbortAndWrap ==
    Thrown =>
        /\ AbortedAtFailure
        /\ IsSuffix(cause, errMsg)
        /\ Context = IF faults \cap {"validate", "mkdtemp"} # {} THEN <<>>
                     ELSE <<"Transcription failed: ">>
        /\ "extract" \in faults =>
              SubSeq(cause, 1, 2) = <<"Failed to extract audio: ", "Command failed: ">>
        /\ faults \cap {"meta", "download", "whisper"} # {} =>
              Head(cause) = "Command failed: "

C16_Witness ==
    /\ Thrown /\ "whisper" \in faults
    /\ Context = <<"Transcription failed: ">>
    /\ events[Len(events) - 1] = <<"fail", "whisper">>

\* ---- C17

\* The retried command of the step that failed was executed more than once,
\* and its attempts did not all fail alike.
RetriedApart ==
    /\ faults \cap {"meta", "download"} # {}
    /\ Len(rLog) > 1
    /\ MessageOf(1) # MessageOf(Len(rLog))

\* C17: a call that fails throws one error and returns no result; the
\* error's message ends with the message of the failure that ended the
\* pipeline - for a retried command, the failure of its last execution, not
\* of an earlier one; a failed metadata probe of a local file and a failed
\* removal of the temp directory in the catch block are not such failures.
C17_WrapsTheFailure ==
    Thrown =>
        /\ result = NoResult
        /\ cause # <<>> /\ IsSuffix(cause, errMsg)
        /\ faults \cap {"meta", "download"} # {} =>
              (rLog # <<>> /\ cause = MessageOf(Len(rLog)))
        /\ "extract" \in faults => cause[Len(cause)] \in {e[Len(e)] : e \in Stderrs}
                                       \cup {NotFound("ffmpeg")[3]}
        /\ "validate" \in faults => cause = validateLocalFile(url, srcExists)
        /\ response \in {NoResponse, ErrorResponse(errMsg)}

C17_Witness ==
    /\ Thrown /\ RetriedApart
    /\ Len(rLog) = DefaultMaxRetries
    /\ IsSuffix(MessageOf(DefaultMaxRetries), errMsg)
    /\ ~IsSuffix(MessageOf(1), errMsg)

\* ---- C18

\* s occurs in t, as it is.
Contains(t, s) == \E i \in 1..(Len(t) - Len(s) + 1) : SubSeq(t, i, i + Len(s) - 1) = s

FatalToolFailure == faults \cap {"meta", "download", "extract", "whisper"} # {}

\* C18: when the metadata dump, the audio download, the local extraction or
\* the engine fails the pipeline, what the tool printed on stderr is, word
\* for word, part of the message transcribeVideo throws and of the
\* 'Error: ...' text the tool-call handler answers with.
C18_StderrVerbatim ==
    (pc \in {"done", "responded"} /\ FatalToolFailure) =>
        /\ outcome = "thrown"
        /\ captured # <<>> /\ Contains(errMsg, captured)
        /\ pc = "responded" =>
              /\ response.isError
              /\ Head(response.text) = "Error: "
              /\ Contains(response.text, captured)

C18_Witness ==
    /\ pc = "responded" /\ "whisper" \in faults
    /\ captured = <<"ERROR: ", "permission denied">>
    /\ Contains(response.text, captured)

\* ---- C19

\* C19: a transcribe_video request made while a tool is missing ends with
\* 'Missing dependencies: ...' (or fails validation) before a temp directory
\* is created or a tool is run.
C19_ProbedBeforeRun ==
    (req = "transcribe_video" /\ missing # {} /\ pc # "start") =>
        /\ tempDir = "none"
        /\ Executed = {}
        /\ outcome = "thrown"
        /\ "validate" \in faults \/ Head(errMsg) = "Missing dependencies: "

\* ---- C20

\* The retry announcements among the progress messages.
RetryNotes == {i \in DOMAIN progress : Head(progress[i]) = "Network error, retrying in "}

CountOf(e) == Cardinality({i \in DOMAIN events : events[i] = e})

\* C20: in one request whisper is executed at most once and ffmpeg at most
\* once; while either runs no backoff delay is waited and no retry is
\* announced, whatever its failure message says; a failure of either ends
\* the call with a thrown error.
C20_EngineAndExtractorOnce ==
    /\ [](req = "transcribe_video" =>
            /\ CountOf(<<"exec", "whisper">>) <= 1
            /\ CountOf(<<"exec", "ffmpeg">>) <= 1
            /\ ~isUrl(url) => delays = <<>>
            /\ (CountOf(<<"fail", "whisper">>) + CountOf(<<"fail", "ffmpeg">>) > 0) =>
                  (pc \in {"done", "responded"} /\ outcome = "thrown"))
    /\ [][(pc \in {"extract", "whisper"}) =>
             (delays' = delays /\ rLog' = rLog /\ RetryNotes' = RetryNotes /\ pc' # pc)]_vars

C20_Witness ==
    /\ Thrown /\ "whisper" \in faults
    /\ captured = <<"ERROR: ", "timeout">> /\ isNetworkError(cause)
    /\ CountOf(<<"exec", "whisper">>) = 1

\* ---- C21

Returned == Done /\ outcome = "returned"

\* The options as the caller meant them: what was passed, else the default.
\* The tool-call handler takes an empty string for a missing option.
LeftOut(opt) == opt = Undefined \/ (req = "transcribe_video" /\ opt = <<>>)
SelectedModel == IF LeftOut(optModel) THEN <<"base">> ELSE optModel
LanguageHint == IF LeftOut(optLanguage) THEN <<"auto">> ELSE optLanguage

FlagPassed == Includes(engineCmd, " --language ")
TrailerNamesLanguage ==
    Includes(FileContent(dest, OutputPath(meta, ".md")), ", language: ")

\* C21: the engine command carries the selected model (default 'base') and
\* '--output_format all'; it carries '--language' exactly when the language
\* hint is not 'auto'; the trailer of the .md document names a language
\* exactly when the flag was passed.
C21_ModelAndLanguage ==
    Returned =>
        /\ SubSeq(engineCmd, 1, 3) =
              <<"whisper video.mp3 --model ">> \o SelectedModel \o <<" --output_format all">>
        /\ FlagPassed = (LanguageHint # <<"auto">>)
        /\ TrailerNamesLanguage = FlagPassed

\* ---- C22: detectPlatform called on its own

PlatformDomains ==
    {"youtube.com", "youtu.be/", "vimeo.com", "tiktok.com", "twitter.com", "x.com",
     "facebook.com", "fb.watch", "instagram.com", "twitch.tv", "dailymotion.com"}

\* Locators on each known domain and on an unknown one, one written with
\* capitals, one naming two known domains, one whose host only ends in a
\* known domain.
PlatformUrls ==
    {<<"https", ":", "//", d, "/v">> : d \in PlatformDomains \cup {"example.com"}}
      \cup { <<"https", ":", "//", "YouTube.com", "/watch">>,
             <<"https", ":", "//", "vimeo.com", "/1?ref=", "youtube.com">>,
             <<"https", ":", "//", "netfli", "x.com", "/title">> }

\* metadata.extractor: absent, or an extractor name.
Extractors ==
    {<<>>, <<"youtube">>, <<"Vimeo">>, <<"tiktok">>, <<"twitter">>, <<"Generic">>,
     <<"soundcloud">>}

InitPlatform ==
    /\ pc = "detect"
    /\ fin \in {<<u, x>> : u \in PlatformUrls, x \in Extractors}
    /\ fout = <<>> /\ fout2 = <<>>
    /\ PipelineIdle /\ RetryIdle

DetectOnce ==
    /\ pc = "detect"
    /\ fout' = detectPlatform(fin[1], [extractor |-> fin[2]])
    /\ pc' = "detected"
    /\ UNCHANGED <<fin, fout2, progress, callvars, rvars>>

NextPlatform == DetectOnce

SpecPlatform == InitPlatform /\ [][NextPlatform]_vars

\* The platform table, in its order, and the extractor names that are
\* normalised.
PlatformTable ==
    << <<"youtube.com", "YouTube">>, <<"youtu.be/", "YouTube">>, <<"vimeo.com", "Vimeo">>,
       <<"tiktok.com", "TikTok">>, <<"twitter.com", "Twitter/X">>, <<"x.com", "Twitter/X">>,
       <<"facebook.com", "Facebook">>, <<"fb.watch", "Facebook">>,
       <<"instagram.com", "Instagram">>, <<"twitch.tv", "Twitch">>,
       <<"dailymotion.com", "Dailymotion">> >>
ExtractorTable ==
    << <<"youtube", "YouTube">>, <<"vimeo", "Vimeo">>, <<"tiktok", "TikTok">>,
       <<"twitter", "Twitter/X">> >>

\* The label of the first entry of table whose key is a word of words, lower
\* case; <<>> when there is none.
FirstMatch(table, words) ==
    LET hits == {k \in DOMAIN table : \E i \in DOMAIN words : LowerTok(words[i]) = table[k][1]}
    IN IF hits = {} THEN <<>>
       ELSE <<table[CHOOSE k \in hits : \A h \in hits : k <= h][2]>>

\* C22 as stated: the first table entry the URL matches; else the canonical
\* label of a known extractor; else 'Unknown'.
C22_PlatformOrUnknown ==
    pc = "detected" =>
        fout = IF FirstMatch(PlatformTable, fin[1]) # <<>>
               THEN FirstMatch(PlatformTable, fin[1])
               ELSE IF FirstMatch(ExtractorTable, fin[2]) # <<>>
               THEN FirstMatch(ExtractorTable, fin[2])
               ELSE <<"Unknown">>

\* C22, amended: the first table entry the lower-cased URL matches, whatever
\* the extractor; else, with an extractor name reported, its canonical label
\* when it contains youtube, vimeo, tiktok or twitter and the name as
\* reported when it does not; 'Unknown' only with no extractor name.
C22_PlatformOrder ==
    pc = "detected" =>
        fout = IF FirstMatch(PlatformTable, fin[1]) # <<>>
               THEN FirstMatch(PlatformTable, fin[1])
               ELSE IF FirstMatch(ExtractorTable, fin[2]) # <<>>
               THEN FirstMatch(ExtractorTable, fin[2])
               ELSE IF fin[2] # <<>> THEN fin[2]
               ELSE <<"Unknown">>

C22_Witness ==
    /\ pc = "detected"
    /\ fin = << <<"https", ":", "//", "vimeo.com", "/1?ref=", "youtube.com">>, <<"tiktok">> >>
    /\ fout = <<"YouTube">>

\* ---- C23, C24: extractVideoId called on two locators

IdUrls ==
    { <<"https", ":", "//", "youtube.com", "/watch", "?v=", "abc123">>,
      <<"https", ":", "//", "youtube.com", "/watch", "?v=", "abc123", "&t=", "10">>,
      <<"https", ":", "//", "youtube.com", "/watch", "?list=", "PL1", "&v=", "abc123">>,
      <<"https", ":", "//", "youtube.com", "/watch", "?v=", "abc123", "#t=10">>,
      <<"https", ":", "//", "youtu.be/", "abc123">>,
      <<"https", ":", "//", "youtu.be/", "abc123", "?t=", "10">>,
      <<"https", ":", "//", "youtu.be/", "abc123", "/extra">>,
      <<"https", ":", "//", "example.com", "/a">>,
      <<"https", ":", "//", "other.org", "/b">>,
      <<"https", ":", "//", "127.0.0.1", "/a">>,
      <<"http", ":", "//", "example.com", "/a">>,
      <<"http", ":", "//", "<U+65E5><U+672C>.jp", "/a">> }

\* metadata.id as the download tool reports it, or absent.
ToolIds == {<<>>, <<"tool-id">>}

InitVideoId ==
    /\ pc = "identify"
    /\ fin \in {<<u1, u2, id>> : u1 \in IdUrls, u2 \in IdUrls, id \in ToolIds}
    /\ fout = <<>> /\ fout2 = <<>>
    /\ PipelineIdle /\ RetryIdle

IdentifyBoth ==
    /\ pc = "identify"
    /\ fout' = extractVideoId(fin[1], [id |-> fin[3]])
    /\ fout2' = extractVideoId(fin[2], [id |-> fin[3]])
    /\ pc' = "identified"
    /\ UNCHANGED <<fin, progress, callvars, rvars>>

NextVideoId == IdentifyBoth

SpecVideoId == InitVideoId /\ [][NextVideoId]_vars

\* A URL's query runs from its '?' to its fragment; a path segment ends at
\* the next '/', '?' or '#'.
FragToks == {"#t=10"}
SegmentEnds == {"/extra"} \cup QToks \cup FragToks

\* The value of the query parameter v; <<>> without one.
QueryParamV(u) ==
    LET frag == {i \in DOMAIN u : u[i] \in FragToks}
        end == IF frag = {} THEN Len(u) ELSE (CHOOSE i \in frag : \A j \in frag : i <= j) - 1
        q == SubSeq(u, 1, end)
        vs == {i \in 1..(Len(q) - 1) : q[i] \in {"?v=", "&v="}}
    IN IF vs = {} THEN <<>>
       ELSE Run(q, (CHOOSE i \in vs : \A j \in vs : i <= j) + 1, AmpToks)

\* The path segment that follows 'youtu.be/'; <<>> without one.
ShortLinkSegment(u) ==
    LET ys == {i \in 1..(Len(u) - 1) : u[i] = "youtu.be/"}
    IN IF ys = {} THEN <<>>
       ELSE Run(u, (CHOOSE i \in ys : \A j \in ys : i <= j) + 1, SegmentEnds)

UrlSafe ==
    {Base64Alphabet[i] : i \in 1..62} \cup {"-", "_"}

\* C23: the identifier is the first of: the value of the v query parameter,
\* the path segment after 'youtu.be/', the tool-reported id, the 11-character
\* URL-safe hash; a pattern wins over the tool id, the identifier is never
\* empty, 'https://youtube.com/watch?v=abc123' gives 'abc123'.
C23_Identifier ==
    pc = "identified" =>
        LET u == fin[1] IN
        /\ fout # <<>>
        /\ fout = IF QueryParamV(u) # <<>> THEN QueryParamV(u)
                  ELSE IF ShortLinkSegment(u) # <<>> THEN ShortLinkSegment(u)
                  ELSE IF fin[3] # <<>> THEN fin[3]
                  ELSE Base64Id(u)
        /\ (QueryParamV(u) = <<>> /\ ShortLinkSegment(u) = <<>> /\ fin[3] = <<>>)
              => Len(fout) = HashLen /\ \A k \in DOMAIN fout : fout[k] \in UrlSafe
        /\ u = <<"https", ":", "//", "youtube.com", "/watch", "?v=", "abc123">>
              => fout = <<"abc123">>

\* The identifier of u is the hash of the URL.
UsesHash(u) == QueryParamV(u) = <<>> /\ ShortLinkSegment(u) = <<>> /\ fin[3] = <<>>

\* C24: two different remote references get different identifiers, here in
\* the case the claim singles out: both identifiers are the hash of the URL.
C24_UniqueIdentifier ==
    (pc = "identified" /\ fin[1] # fin[2] /\ UsesHash(fin[1]) /\ UsesHash(fin[2]))
        => fout # fout2

\* ---- C25

LocalProbed == ~isUrl(url) /\ pc \notin {"start", "probe"} /\ meta # NoMeta

\* C25: for a LOCAL source a failed probe or a non-numeric probe output never
\* fails the request: the duration is 0 and the pipeline goes on to the
\* extraction; title and identifier are the base name without its extension,
\* the channel is 'Local File', the upload date is empty and a probed
\* duration is floored.
C25_LocalMetadata ==
    /\ [](LocalProbed =>
            /\ meta.title = basename(resolve(url)) /\ meta.videoId = meta.title
            /\ meta.channel = <<"Local File">> /\ meta.uploadDate = <<>>
            /\ meta.duration = IF "probe" \notin faults /\ probed = <<"12.7">> THEN 12 ELSE 0)
    /\ [][(pc = "probe") => (pc' = "extract" /\ outcome' = "pending" /\ errMsg' = <<>>)]_vars

C25_Witness ==
    /\ Returned /\ url = <<"/videos/", "talk", ".MP4">>
    /\ "probe" \in faults
    /\ result.metadata.title = <<"talk">> /\ result.metadata.duration = 0

\* ---- C26

\* C26: on success transcript is the engine's full text, transcriptPreview
\* its prefix of length min(500, length), and the metadata of the result are
\* the values rendered into the .md file and used in the file names.
C26_ResultFields ==
    Returned =>
        /\ result.transcript = engine.txt
        /\ Len(result.transcriptPreview) = Min(500, Len(result.transcript))
        /\ result.transcriptPreview = SubSeq(result.transcript, 1, Len(result.transcriptPreview))
        /\ \A ext \in {".txt", ".json", ".md"} :
             <<OutputDir \o result.metadata.videoId \o <<"-">>
                 \o sanitizeFilename(result.metadata.title) \o <<ext>>>>
               \in {<<result.files.txt>>, <<result.files.json>>, <<result.files.md>>}
        /\ FileContent(dest, result.files.md)
             = mdContent(result.metadata, result.transcript, Model, Language)

C26_Witness ==
    /\ Returned /\ Len(result.transcript) = 501 /\ Len(result.transcriptPreview) = 500
    /\ result.metadata.videoId = <<"xyz">>

\* ---- C27, C28: two calls of transcribeVideo in one server process.  Each
\* await is a point where the other call may run; the code between two
\* awaits runs without interruption.

Reqs == {1, 2}

ConcSources ==
    { <<"/videos/", "talk", ".MP4">>,
      <<"/archive/", "talk", ".mp4">>,
      <<"https", ":", "//", "youtube.com", "/watch", "?v=", "xyz">> }

TempNames == {"video-transcript-A1", "video-transcript-B2", "video-transcript-C3"}

IsDir == [by |-> 0, of |-> <<"<dir>">>]

\* Variant: a temporary directory name that may already be taken.
mkdtempSync_Any(fs) == TempNames

\* mkdtempSync(prefix): a directory that did not exist.
mkdtempSync(fs) == {d \in TempNames : ~FileExists(fs, <<d>>)}

\* rmSync(dir, {recursive: true, force: true})
rmSync(fs, dir) == {f \in fs : f.path[1] # dir}

\* The identifier and title a source resolves to.
ConcMeta(src) ==
    IF isUrl(src)
    THEN LET metadata == MetaObjects("demo")
         IN [videoId |-> extractVideoId(src, metadata), title |-> OrElse(metadata.title, <<"Unknown">>)]
    ELSE [videoId |-> basename(resolve(src)), title |-> basename(resolve(src))]

NoCall(src) == [pc |-> "idle", src |-> src, tmp |-> "", read |-> {}, wrote |-> {}]

InitConc ==
    /\ pc = "conc"
    /\ calls \in [Reqs -> {NoCall(src) : src \in ConcSources}]
    /\ disk = NoDisk
    /\ SingleIdle /\ RetryIdle /\ HelperIdle

\* The catch block of call r: rmSync(tempDir), then the error is thrown.
ConcCatch(r, fs) ==
    /\ disk' = [disk EXCEPT !.tmp = rmSync(fs, calls[r].tmp)]
    /\ calls' = [calls EXCEPT ![r].pc = "thrown"]

\* Validation and mkdtempSync.
ConcStart ==
    \E r \in Reqs :
      /\ calls[r].pc = "idle"
      /\ \E d \in mkdtempSync(disk.tmp) :
           /\ disk' = [disk EXCEPT !.tmp = WriteFile(@, <<d>>, IsDir)]
           /\ calls' = [calls EXCEPT ![r].pc = "audio", ![r].tmp = d]
      /\ UNCHANGED <<solo, rvars, fvars>>

\* The download or the extraction has written tempDir/video.mp3, or failed.
ConcAudio ==
    \E r \in Reqs, ok \in BOOLEAN :
      /\ calls[r].pc = "audio"
      /\ IF ok /\ FileExists(disk.tmp, <<calls[r].tmp>>)
         THEN /\ disk' = [disk EXCEPT !.tmp = WriteFile(@, <<calls[r].tmp, "video.mp3">>,
                                                       [by |-> r, of |-> calls[r].src])]
              /\ calls' = [calls EXCEPT ![r].pc = "engine"]
         ELSE ConcCatch(r, disk.tmp)
      /\ UNCHANGED <<solo, rvars, fvars>>

\* The engine has read tempDir/video.mp3 and written video.txt and
\* video.json into tempDir, or failed.
ConcEngine ==
    \E r \in Reqs, ok \in BOOLEAN :
      /\ calls[r].pc = "engine"
      /\ LET audio == <<calls[r].tmp, "video.mp3">> IN
         IF ok /\ FileExists(disk.tmp, audio)
         THEN LET heard == FileContent(disk.tmp, audio)
                  out == [by |-> r, of |-> heard.of]
              IN /\ disk' = [disk EXCEPT !.tmp = WriteFile(WriteFile(@,
                                 <<calls[r].tmp, "video.txt">>, out),
                                 <<calls[r].tmp, "video.json">>, out)]
                 /\ calls' = [calls EXCEPT ![r].pc = "write", ![r].read = @ \cup {heard.by}]
         ELSE ConcCatch(r, disk.tmp)
      /\ UNCHANGED <<solo, rvars, fvars>>

\* From readFileSync to the return, without an await: the two reads, the
\* three writeFileSync, rmSync(tempDir).
ConcWrite ==
    \E r \in Reqs :
      /\ calls[r].pc = "write"
      /\ LET txt == <<calls[r].tmp, "video.txt">>
             json == <<calls[r].tmp, "video.json">>
             m == ConcMeta(calls[r].src)
         IN IF FileExists(disk.tmp, txt) /\ FileExists(disk.tmp, json)
            THEN LET t == FileContent(disk.tmp, txt)
                     j == FileContent(disk.tmp, json)
                     files == { [path |-> OutputPath(m, ".txt"), content |-> <<"text", t.of>>],
                                [path |-> OutputPath(m, ".json"), content |-> <<"json", j.of>>],
                                [path |-> OutputPath(m, ".md"), content |-> <<"md", t.of>>] }
                 IN /\ disk' = [tmp |-> rmSync(disk.tmp, calls[r].tmp),
                                out |-> {f \in disk.out : \A g \in files : g.path # f.path}
                                          \cup files]
                    /\ calls' = [calls EXCEPT ![r].pc = "returned",
                                              ![r].read = @ \cup {t.by, j.by},
                                              ![r].wrote = files]
            ELSE ConcCatch(r, disk.tmp)
      /\ UNCHANGED <<solo, rvars, fvars>>

NextConc == ConcStart \/ ConcAudio \/ ConcEngine \/ ConcWrite

SpecConc == InitConc /\ [][NextConc]_vars

InFlight(r) == calls[r].pc \in {"audio", "engine", "write"}

\* C27: every request in flight has a temporary directory of its own:
\* distinct from every other's, holding only what it wrote itself, read only
\* by itself, and not touched by another request's cleanup.
C27_OwnTempDir ==
    pc = "conc" =>
      \A r \in Reqs :
        /\ calls[r].read \subseteq {r}
        /\ InFlight(r) =>
             /\ \A q \in Reqs \ {r} : InFlight(q) => calls[q].tmp # calls[r].tmp
             /\ FileExists(disk.tmp, <<calls[r].tmp>>)
             /\ \A f \in disk.tmp :
                  (f.path[1] = calls[r].tmp /\ f.content # IsDir) => f.content.by = r
             /\ calls[r].pc \in {"engine", "write"}
                  => FileExists(disk.tmp, <<calls[r].tmp, "video.mp3">>)
             /\ calls[r].pc = "write"
                  => /\ FileExists(disk.tmp, <<calls[r].tmp, "video.txt">>)
                     /\ FileExists(disk.tmp, <<calls[r].tmp, "video.json">>)

C27_Witness ==
    /\ pc = "conc"
    /\ calls[1].pc = "thrown" /\ calls[1].tmp # ""
    /\ calls[2].pc = "write" /\ calls[2].read = {2}
    /\ FileExists(disk.tmp, <<calls[2].tmp, "video.txt">>)

\* C28: the destination is only appended to: whatever calls run, in whatever
\* order, an artifact written by an earlier call is still there, unchanged.
C28_AppendOnly ==
    pc = "conc" =>
      \A r \in Reqs : calls[r].pc = "returned" => calls[r].wrote \subseteq disk.out

\* ---- C29

DemoUrl == <<"https", ":", "//", "youtube.com", "/watch", "?v=", "xyz">>
DemoName == <<"out/", "xyz", "-", "D", "e", "m", "o", "-", "T", "a", "l", "k">>
IsDemoRun ==
    /\ Returned /\ url = DemoUrl /\ engine.txt = <<"hello world">>
    /\ meta.title = Chars_DemoTalk /\ meta.channel = <<"Acme">> /\ meta.duration = 125
    /\ meta.uploadDate = Chars_Date /\ meta.videoId = <<"xyz">>

\* C29: a successful run leaves exactly three files in the destination,
\* '{identifier}-{sanitized title}' with .txt, .json and .md; for the example
\* source they are xyz-Demo-Talk.txt, .json and .md, and the .md file holds
\* '**Duration:** 00:02:05' and '**Published:** 2023-06-01'.
C29_ThreeArtifacts ==
    /\ Returned =>
         /\ Cardinality(dest) = 3
         /\ {f.path : f \in dest} =
               {OutputDir \o meta.videoId \o <<"-">> \o sanitizeFilename(meta.title) \o <<ext>> :
                   ext \in {".txt", ".json", ".md"}}
    /\ IsDemoRun =>
         /\ {f.path : f \in dest} = {DemoName \o <<ext>> : ext \in {".txt", ".json", ".md"}}
         /\ FileContent(dest, DemoName \o <<".txt">>) = <<"hello world">>
         /\ Contains(FileContent(dest, DemoName \o <<".md">>),
                     <<"**Duration:** ", "0", "0", ":", "0", "2", ":", "0", "5", "\n">>)
         /\ Contains(FileContent(dest, DemoName \o <<".md">>),
                     <<"**Published:** ", "2", "0", "2", "3", "-", "0", "6", "-", "0", "1", "\n">>)

C29_Witness == IsDemoRun /\ Cardinality(dest) = 3

\* ---- C30

\* The i-th retry note of a call allowed max attempts.
ExpectedNote(i, max) ==
    <<"Network error, retrying in ", ToString(Min(Pow2(i - 1), 10)), "s (attempt ",
      ToString(i), "/", ToString(max), ")...">>

\* C30: each retry emits exactly one progress note, before the backoff wait,
\* stating the delay in seconds and 'attempt a/N'; a finished execWithRetry
\* call has emitted one note less than it ran the command, and the failure
\* that is propagated emits none.
C30_RetryNotes ==
    /\ [](pc = "retry" =>
            /\ Len(progress) = Len(delays)
            /\ \A i \in DOMAIN progress : progress[i] = ExpectedNote(i, rMax)
            /\ rState = "wait" => Len(progress) = attempt /\ Len(rLog) = attempt
            /\ Settled => Len(progress) = Len(rLog) - 1)
    /\ [][(pc = "retry" /\ rState' = "err") => progress' = progress]_vars

C30_Witness ==
    /\ pc = "retry" /\ rState = "err" /\ Len(rLog) = 6 /\ Len(progress) = 5
    /\ progress[5] = <<"Network error, retrying in ", "10", "s (attempt ", "5", "/", "6", ")...">>

\* ---- C31, C32: formatDuration and formatDate called on their own

MaxSmallSeconds == 130
MaxDateLen == 9

\* Durations in seconds: every small one, and the ones around a minute, an
\* hour, a day and a hundred hours.
DurationSamples ==
    0..MaxSmallSeconds \cup {3599, 3600, 3725, 86399, 86400, 359999, 360000, 360001}

\* upload_date texts: every text of at most MaxDateLen characters over a
\* digit and a letter, and the date of the example.
DateSamples ==
    UNION {[1..n -> {"1", "x"}] : n \in 0..MaxDateLen}
      \cup {<<"2", "0", "2", "4", "0", "1", "1", "5">>}

InitFormat ==
    /\ \/ pc = "duration" /\ fin \in {<<s>> : s \in DurationSamples}
       \/ pc = "date" /\ fin \in DateSamples
    /\ fout = <<>> /\ fout2 = <<>>
    /\ PipelineIdle /\ RetryIdle

FormatDurationOnce ==
    /\ pc = "duration"
    /\ fout' = formatDuration(fin[1])
    /\ pc' = "duration formatted"
    /\ UNCHANGED <<fin, fout2, progress, callvars, rvars>>

FormatDateOnce ==
    /\ pc = "date"
    /\ fout' = formatDate(fin)
    /\ pc' = "date formatted"
    /\ UNCHANGED <<fin, fout2, progress, callvars, rvars>>

NextFormat == FormatDurationOnce \/ FormatDateOnce

SpecFormat == InitFormat /\ [][NextFormat]_vars

\* The fields of a text 'a:b:c'.
Colons(t) == {i \in DOMAIN t : t[i] = ":"}
Field(t, k) ==
    LET c1 == CHOOSE i \in Colons(t) : \A j \in Colons(t) : i <= j
        c2 == CHOOSE i \in Colons(t) : \A j \in Colons(t) : j <= i
    IN IF k = 1 THEN SubSeq(t, 1, c1 - 1)
       ELSE IF k = 2 THEN SubSeq(t, c1 + 1, c2 - 1)
       ELSE SubSeq(t, c2 + 1, Len(t))

\* A field is a number written with at least two digits: a '0' and one
\* digit, or a number of two or more digits.
WellPadded(f) ==
    \/ Len(f) = 2 /\ f[1] = "0" /\ \E d \in 0..9 : f[2] = ToString(d)
    \/ Len(f) = 1 /\ \E n \in 10..100 : f[1] = ToString(n)
FieldValue(f) == CHOOSE n \in 0..100 : f[Len(f)] = ToString(n)

\* C31: formatDuration(s) is 'HH:MM:SS', each field at least two digits, with
\* HH = s div 3600, MM = (s mod 3600) div 60 < 60, SS = s mod 60 < 60 and
\* HH*3600 + MM*60 + SS = s; 3725 gives '01:02:05' and 0 gives '00:00:00'.
C31_Duration ==
    pc = "duration formatted" =>
        LET s == fin[1]
            hh == FieldValue(Field(fout, 1))
            mm == FieldValue(Field(fout, 2))
            ss == FieldValue(Field(fout, 3))
        IN /\ Cardinality(Colons(fout)) = 2
           /\ \A k \in 1..3 : WellPadded(Field(fout, k))
           /\ hh = s \div 3600 /\ mm = (s % 3600) \div 60 /\ ss = s % 60
           /\ mm < 60 /\ ss < 60 /\ hh * 3600 + mm * 60 + ss = s
           /\ s = 3725 => fout = <<"0", "1", ":", "0", "2", ":", "0", "5">>
           /\ s = 0 => fout = <<"0", "0", ":", "0", "0", ":", "0", "0">>

C31_Witness ==
    pc = "duration formatted" /\ fin = <<360001>> /\ fout = <<"100", ":", "0", "0", ":", "0", "1">>

\* C32: formatDate puts a hyphen after the fourth and the sixth character of
\* an 8-character text and changes nothing else; a text of any other length,
\* the empty one included, comes back unchanged; '20240115' gives
\* '2024-01-15'.
C32_Date ==
    pc = "date formatted" =>
        /\ Len(fin) = 8 =>
              /\ Len(fout) = 10 /\ fout[5] = "-" /\ fout[8] = "-"
              /\ <<fout[1], fout[2], fout[3], fout[4], fout[6], fout[7], fout[9], fout[10]>> = fin
        /\ Len(fin) # 8 => fout = fin
        /\ fin = <<"2", "0", "2", "4", "0", "1", "1", "5">>
              => fout = <<"2", "0", "2", "4", "-", "0", "1", "-", "1", "5">>

C32_Witness ==
    pc = "date formatted" /\ Len(fin) = 9 /\ fout = fin

\* ---- C33

ExecCount == Cardinality({i \in DOMAIN events : events[i][1] = "exec"})
FirstDownload ==
    CHOOSE i \in DOMAIN events :
        /\ events[i] = <<"exec", "yt-dlp -x">>
        /\ \A j \in 1..(i - 1) : events[j] # <<"exec", "yt-dlp -x">>

\* C33: a remote request executes the metadata dump at most 3 times and the
\* audio download at most 3 times, the first download only after a metadata
\* attempt succeeded and its output parsed, and the engine at most once: at
\* most 7 tool executions; a local request at most 3.
C33_InvocationBudget ==
    /\ isUrl(url) =>
         /\ CountOf(<<"exec", "yt-dlp --dump-json">>) <= 3
         /\ CountOf(<<"exec", "yt-dlp -x">>) <= 3
         /\ CountOf(<<"exec", "whisper">>) <= 1
         /\ ExecCount <= 7
         /\ CountOf(<<"exec", "yt-dlp -x">>) > 0 =>
              /\ Preceded(FirstDownload, <<"ok", "yt-dlp --dump-json">>)
              /\ Preceded(FirstDownload, <<"ok", "metadata">>)
    /\ (~isUrl(url) /\ pc # "conc") =>
         /\ ExecCount <= 3
         /\ \A t \in {"ffprobe", "ffmpeg", "whisper"} : CountOf(<<"exec", t>>) <= 1

C33_Witness ==
    /\ Returned /\ isUrl(url) /\ ExecCount = 7
    /\ CountOf(<<"exec", "yt-dlp --dump-json">>) = 3 /\ CountOf(<<"exec", "yt-dlp -x">>) = 3

\* ---- C34: calls into a destination directory that may hold files already

\* Files of earlier runs: one with the name the example source gets, one of
\* another video.
EarlierFiles ==
    { [path |-> OutputDir \o <<"xyz", "-", "D", "e", "m", "o", "-", "T", "a", "l", "k", ".txt">>,
       content |-> <<"an earlier transcript">>],
      [path |-> OutputDir \o <<"old", "-", "n", "o", "t", "e", "s", ".md">>,
       content |-> <<"# notes">>] }

\* A call on one of refs into a destination that is one of dests.
InitCall(refs, dests) ==
    /\ pc = "start"
    /\ req \in {"transcribe_video", "direct"}
    /\ url \in refs
    /\ srcExists \in (IF isUrl(url) THEN {FALSE} ELSE BOOLEAN)
    /\ missing = {} /\ optModel = Undefined /\ optLanguage = Undefined
    /\ dest \in dests
    /\ fin = <<dest>> /\ fout = <<>> /\ fout2 = <<>>
    /\ tempDir = "none" /\ engine = NoEngine
    /\ progress = <<>> /\ outcome = "pending" /\ result = NoResult
    /\ errMsg = <<>> /\ faults = {} /\ meta = NoMeta
    /\ events = <<>> /\ cause = <<>> /\ response = NoResponse
    /\ captured = <<>> /\ engineCmd = <<>> /\ probed = <<>>
    /\ calls = <<>> /\ disk = NoDisk
    /\ RetryIdle

InitDest == InitCall(PipelineRefs, {{}, EarlierFiles})

SpecDest == InitDest /\ [][NextOptions]_vars

\* The destination as the call found it.
DestBefore == fin[1]

\* C34: a call that fails at validation, at the metadata or audio step, at
\* the engine or while reading video.txt or video.json leaves the destination
\* as it found it: nothing created, changed or removed.
C34_DestinationUntouched ==
    /\ (outcome = "thrown" /\ faults \cap {"write", "rm"} = {}) => dest = DestBefore
    /\ (pc \in {"start", "meta", "probe", "download", "extract", "whisper"}) => dest = DestBefore

C34_Witness ==
    /\ outcome = "thrown" /\ "readJson" \in faults
    /\ dest = EarlierFiles /\ DestBefore = EarlierFiles

\* ---- C35: calls on references whose identifier is taken from the URL

PathRefs ==
    { <<"https", ":", "//", "example.com", "/watch", "?v=", "..", "/", "..", "/", "x">>,
      <<"https", ":", "//", "youtube.com", "/watch", "?v=", "xyz">>,
      <<"/videos/", "talk", ".MP4">> }

InitPaths == InitCall(PathRefs, {{}})

SpecPaths == InitPaths /\ [][NextOptions]_vars

\* The file name of a path in the destination directory.
NameIn(path) == SubSeq(path, Len(OutputDir) + 1, Len(path))
DirectChild(path) ==
    /\ SubSeq(path, 1, Len(OutputDir)) = OutputDir
    /\ \A i \in DOMAIN NameIn(path) : NameIn(path)[i] \notin {"/", "\\", ".."}

\* C35: the three artifact paths written and returned are direct children of
\* the destination directory: the file name holds no path separator and no
\* '..' component, whatever the identifier was taken from.
C35_DirectChildren ==
    /\ \A f \in dest : DirectChild(f.path)
    /\ Returned => \A p \in {result.files.txt, result.files.json, result.files.md} :
                      DirectChild(p)

\* ---- C36: the CallTool handler, with a tool name it does not know and an
\* output directory it cannot create

ToolNames == {"transcribe_video", "check_dependencies", "no_such_tool"}

HandlerRefs ==
    { <<"https", ":", "//", "youtube.com", "/watch", "?v=", "xyz">>,
      <<"/videos/", "talk", ".MP4">>,
      <<"/videos/", "notes", ".txt">> }

InitHandler ==
    /\ pc = "start"
    /\ req \in ToolNames
    /\ missing \in SUBSET {Dependencies[i] : i \in DOMAIN Dependencies}
    /\ IF req = "transcribe_video"
       THEN /\ url \in HandlerRefs
            /\ srcExists \in (IF isUrl(url) THEN {FALSE} ELSE BOOLEAN)
       ELSE url = <<>> /\ srcExists = FALSE
    /\ tempDir = "none" /\ dest = {} /\ engine = NoEngine
    /\ progress = <<>> /\ outcome = "pending" /\ result = NoResult
    /\ errMsg = <<>> /\ faults = {} /\ meta = NoMeta
    /\ events = <<>> /\ cause = <<>> /\ response = NoResponse
    /\ captured = <<>>
    /\ optModel = Undefined /\ optLanguage = Undefined
    /\ engineCmd = <<>> /\ probed = <<>>
    /\ calls = <<>> /\ disk = NoDisk
    /\ RetryIdle /\ HelperIdle

\* else { throw new Error(`Unknown tool: ${name}`) }, caught by the handler.
HandleUnknownTool ==
    /\ pc = "start"
    /\ req \notin {"transcribe_video", "check_dependencies"}
    /\ response' = ErrorResponse(<<"Unknown tool: ", req>>)
    /\ pc' = "responded"
    /\ UNCHANGED <<url, tempDir, dest, engine, outcome, result, errMsg, faults, meta,
                   events, captured, cause, envvars, progress, engineCmd, probed,
                   concvars>>
    /\ UNCHANGED <<rvars, fvars>>

\* handleTranscribeVideo: mkdirSync(dir) throws before transcribeVideo is
\* called; the error reaches the handler's catch.
EnsureDirFails ==
    /\ pc = "start"
    /\ req = "transcribe_video"
    /\ faults' = {"mkdirOut"}
    /\ cause' = <<"EACCES: permission denied, mkdir ">> \o OutputDir
    /\ response' = ErrorResponse(<<"EACCES: permission denied, mkdir ">> \o OutputDir)
    /\ pc' = "responded"
    /\ UNCHANGED <<url, tempDir, dest, engine, outcome, result, errMsg, meta,
                   events, captured, envvars, progress, engineCmd, probed, concvars>>
    /\ UNCHANGED <<rvars, fvars>>

NextHandler ==
    \/ Start
    \/ ProbeDone \/ ExtractDone
    \/ MetaExec \/ MetaWait \/ MetaDone
    \/ DownloadExec \/ DownloadWait \/ DownloadDone
    \/ WhisperDone
    \/ Respond
    \/ HandleCheckDependencies
    \/ HandleUnknownTool
    \/ EnsureDirFails

\* Every tool and timer reports back.
SpecHandler == InitHandler /\ [][NextHandler]_vars /\ WF_vars(NextHandler)

Responded == pc = "responded"
IsSuccessEnvelope == Includes(response.text, "Video transcribed successfully!")

\* C36: every tool call gets a response, the handler never rejects: an
\* unknown tool name and every error a tool handler throws (a transcribeVideo
\* failure included) give isError = true and the text 'Error: <message>'; the
\* success envelope with the three file paths is returned only when
\* transcribeVideo returned successfully.
C36_AlwaysResponds ==
    /\ <>Responded
    /\ [](Responded =>
            /\ response # NoResponse
            /\ req = "no_such_tool" =>
                 response = [isError |-> TRUE, text |-> <<"Error: ", "Unknown tool: ", req>>]
            /\ (req = "transcribe_video" /\ outcome = "thrown") =>
                 response = [isError |-> TRUE, text |-> <<"Error: ">> \o errMsg]
            /\ "mkdirOut" \in faults =>
                 (response.isError /\ response.text = <<"Error: ">> \o cause)
            /\ IsSuccessEnvelope =>
                 /\ req = "transcribe_video" /\ outcome = "returned" /\ ~response.isError
                 /\ \A p \in {result.files.txt, result.files.json, result.files.md} :
                      Contains(response.text, p)
            /\ (req = "transcribe_video" /\ outcome = "returned") => IsSuccessEnvelope)
    /\ [](~Responded => response = NoResponse)

C36_Witness ==
    /\ Responded /\ req = "transcribe_video" /\ outcome = "thrown" /\ "whisper" \in faults
    /\ response.isError /\ Head(response.text) = "Error: "

\* ---- C37

CompletionNote == <<"Transcription complete!">>
CompletionNotes == {i \in DOMAIN progress : progress[i] = CompletionNote}
PassedValidation == \E i \in DOMAIN events : events[i] = <<"ok", "validate">>

\* C37: the completion message reaches the progress sink only on the success
\* path, only after the temp directory has been removed, and as the last
\* message of the call; no failure path emits it; the first message of every
\* call that passed validation names the reference being processed.
C37_CompletionMessage ==
    /\ CompletionNotes # {} =>
         /\ outcome = "returned" /\ tempDir = "removed"
         /\ CompletionNotes = {Len(progress)}
         /\ \E i \in DOMAIN events : events[i] = <<"rm", "tempDir">>
    /\ outcome = "returned" => CompletionNotes # {}
    /\ outcome = "thrown" => CompletionNotes = {}
    /\ PassedValidation =>
         /\ progress # <<>>
         /\ Head(progress) \in {<<"Processing video URL: ">> \o url,
                                <<"Processing local video file: ">> \o url}

C37_Witness ==
    /\ outcome = "thrown" /\ "rm" \in faults /\ CompletionNotes = {}
    /\ progress[Len(progress)] = <<"Cleaning up temporary files...">>

\* ---- C38

CheckedDependencies == Responded /\ req = "check_dependencies"

\* The tools whose probe failed, in the order yt-dlp, whisper, ffmpeg, and
\* the same written as a list with ', ' between the names.
FailedProbes ==
    (IF "yt-dlp" \in missing THEN <<"yt-dlp">> ELSE <<>>)
      \o (IF "whisper" \in missing THEN <<"whisper">> ELSE <<>>)
      \o (IF "ffmpeg" \in missing THEN <<"ffmpeg">> ELSE <<>>)
FailedList ==
    [i \in 1..(2 * Len(FailedProbes) - 1) |->
        IF i % 2 = 1 THEN FailedProbes[(i + 1) \div 2] ELSE ", "]

\* C38: checkDependencies probes yt-dlp, whisper and ffmpeg on every call,
\* whatever the earlier probes gave; it returns true exactly when all three
\* succeed, and otherwise throws one error whose 'Missing dependencies' list
\* is exactly the tools whose probe failed, in that order.
C38_AllProbed ==
    CheckedDependencies =>
        /\ Len(events) = 3
        /\ \A i \in 1..3 :
             events[i] = <<IF Dependencies[i] \in missing THEN "fail" ELSE "ok", Dependencies[i]>>
        /\ response.isError = (missing # {})
        /\ response.isError =>
             /\ response.text[2] = "Missing dependencies: "
             /\ SubSeq(response.text, 3, 2 + Len(FailedList)) = FailedList
             /\ response.text[3 + Len(FailedList)] = "\n\nPlease install:\n"

C38_Witness ==
    /\ CheckedDependencies /\ missing = {"yt-dlp", "ffmpeg"}
    /\ SubSeq(response.text, 2, 5) = <<"Missing dependencies: ", "yt-dlp", ", ", "ffmpeg">>

\* ---- C39: list_transcripts over a directory written by transcribeVideo

\* Identifiers transcribeVideo produces: a 'v=' value, a tool-reported id, a
\* base name, with and without a hyphen.
ListIds == { <<"xyz">>, <<"q1">>, <<"dQw4", "-", "9WgXcQ">>, <<"dQw4", "-", "talk">> }
ListTitles == { <<"T">>, Chars_DemoTalk }

\* The files of the videos in vs, three for each.
FilesOf(vs) ==
    {safeFilename([videoId |-> v[1], title |-> v[2]]) \o <<ext>> :
        v \in vs, ext \in {".txt", ".json", ".md"}}

InitList ==
    /\ pc = "list"
    /\ fin \in SUBSET (ListIds \X ListTitles)
    /\ fout = <<>> /\ fout2 = <<>>
    /\ PipelineIdle /\ RetryIdle

\* f.split('-')[0]
SplitFirst(f) ==
    LET hy == {i \in DOMAIN f : f[i] = "-"}
    IN IF hy = {} THEN f ELSE SubSeq(f, 1, (CHOOSE i \in hy : \A j \in hy : i <= j) - 1)

\* handleListTranscripts: the .txt and .md files grouped in a Map keyed by
\* f.split('-')[0]; videoGroups.size is the number of videos reported.
ListTranscripts ==
    /\ pc = "list"
    /\ LET transcripts == {f \in FilesOf(fin) : f[Len(f)] \in {".txt", ".md"}}
           keys == {SplitFirst(f) : f \in transcripts}
           videoGroups == [k \in keys |-> {f \in transcripts : SplitFirst(f) = k}]
       IN /\ fout' = <<videoGroups>>
          /\ fout2' = <<Cardinality(keys)>>
    /\ pc' = "listed"
    /\ UNCHANGED <<fin, progress, callvars, rvars>>

NextList == ListTranscripts

SpecList == InitList /\ [][NextList]_vars

\* The listed files written for identifier id.
ListedFor(id) ==
    {safeFilename([videoId |-> v[1], title |-> v[2]]) \o <<ext>> :
        v \in {w \in fin : w[1] = id}, ext \in {".txt", ".md"}}
ListedIds == {v[1] : v \in fin}

\* C39: list_transcripts reports one entry per identifier: the files of one
\* identifier are in one group, files of two identifiers never share a group,
\* and the number of videos reported is the number of identifiers - also for
\* identifiers that contain a hyphen.
C39_OneEntryPerIdentifier ==
    pc = "listed" =>
        LET videoGroups == fout[1] IN
        /\ fout2[1] = Cardinality(ListedIds)
        /\ \A id \in ListedIds : \E k \in DOMAIN videoGroups : ListedFor(id) \subseteq videoGroups[k]
        /\ \A a \in ListedIds, b \in ListedIds :
             a # b => \A k \in DOMAIN videoGroups :
                        ~(ListedFor(a) \cap videoGroups[k] # {} /\ ListedFor(b) \cap videoGroups[k] # {})

\* ---- C40: the resource handlers over a file system

\* Files that may exist: artifacts in the output directory, another file in
\* it, and files elsewhere.
ResourceFiles ==
    { OutputDir \o <<"xyz", "-", "T", ".txt">>,
      OutputDir \o <<"xyz", "-", "T", ".json">>,
      OutputDir \o <<"server", ".key">>,
      <<"/etc/", "passwd">>,
      <<"/home/user/", "notes", ".txt">> }

\* request.params.uri
ResourceUris ==
    {<<"file://">> \o f : f \in ResourceFiles} \cup {<<"https://example.com/", "x", ".txt">>}

InitResource ==
    /\ pc = "read"
    /\ fin \in {<<uri, fs>> : uri \in ResourceUris, fs \in SUBSET ResourceFiles}
    /\ fout = <<>> /\ fout2 = <<>>
    /\ PipelineIdle /\ RetryIdle

\* The ListResources handler: the .txt, .md and .json files of OUTPUT_DIR,
\* each under the URI file://<path>.
ListResources(fs) ==
    {<<"file://">> \o f : f \in {g \in fs : /\ SubSeq(g, 1, Len(OutputDir)) = OutputDir
                                             /\ g[Len(g)] \in {".txt", ".md", ".json"}}}

\* uri.replace('file://', '')
StripScheme(uri) ==
    LET at == {i \in DOMAIN uri : uri[i] = "file://"}
    IN IF at = {} THEN uri
       ELSE LET k == CHOOSE i \in at : \A j \in at : i <= j
            IN SubSeq(uri, 1, k - 1) \o SubSeq(uri, k + 1, Len(uri))

\* The ReadResource handler: readFileSync of the path in the URI; its
\* content returned, or `Failed to read file` thrown.
ReadResource ==
    /\ pc = "read"
    /\ LET filePath == StripScheme(fin[1]) IN
       fout' = IF filePath \in fin[2]
               THEN <<"contents", <<"content of">> \o filePath>>
               ELSE <<"error", <<"Failed to read file: ", "ENOENT: no such file or directory, open ">>
                                 \o filePath>>
    /\ pc' = "served"
    /\ UNCHANGED <<fin, fout2, progress, callvars, rvars>>

NextResource == ReadResource

SpecResource == InitResource /\ [][NextResource]_vars

\* C40: the resource layer serves produced artifacts only: a ReadResource
\* request returns content only for a URI that ListResources lists, a .txt,
\* .json or .md file of the output directory; any other URI gets an error
\* and no content.
C40_ServesArtifactsOnly ==
    pc = "served" => ((fout[1] = "contents") = (fin[1] \in ListResources(fin[2])))

====
